---- MODULE Spec2Model ----
(***************************************************************************)
(* A model of the GOS toolchain's transformation layer: the Compiler       *)
(* (AST -> IR, src/src/compiler.rs) and the Decompiler (IR -> source text, *)
(* src/src/decompiler.rs).                                                 *)
(*                                                                         *)
(* Text is modelled as a sequence of one-character strings, so that        *)
(* lengths, columns, prefixes and escapes are computed as the code         *)
(* computes them.  A serde_json Value is a tagged record; a JSON object is *)
(* the sequence of its (key, value) entries in iteration order.            *)
(***************************************************************************)
EXTENDS Integers, Sequences, FiniteSets, TLC

VARIABLES
    ast,        \* the AST root handed to Compiler::compile
    pc,         \* position of the pipeline: "start", "loop", "done", "serialized", "end"
    idx,        \* compile_module: index of the next Module child
    vars,       \* compile_module: the running variable table (HashMap)
    graphs,     \* compile_module: Vec<GraphDict> built so far
    ops,        \* compile_module: Vec<OpDict> built so far
    result,     \* what Compiler::compile returned (Ok(CompileResult) / Err)
    ir,         \* the IR value handed to decompile_from_data
    opts,       \* the DecompileOptions handed to decompile_from_data
    OPTIONS,    \* the thread-local pretty-printer configuration cell
    out         \* what decompile_from_data returned (Ok(text) / Err(message))

allvars == <<ast, pc, idx, vars, graphs, ops, result, ir, opts, OPTIONS, out>>

-----------------------------------------------------------------------------
(* Bounds of the model.                                                    *)

\* Longest Module (number of top-level statements) the compiler is run on.
MaxChildren == 3

-----------------------------------------------------------------------------
(* Text.                                                                   *)

\* The characters the model's texts are made of, in ASCII order.
Alphabet ==
    <<"\n", " ", "\"", "$", "%", "'", "(", ")", ",", "-", ".",
      "0", "1", "2", "3", "4", "5", "6", "7", "8", "9",
      ":", ";", "=", ">", "?", "@", "A", "D", "M", "[", "\\", "]", "_",
      "a", "b", "c", "d", "e", "f", "g", "h", "i", "j", "k", "l", "m",
      "n", "o", "p", "q", "r", "s", "t", "u", "v", "w", "x", "y", "z",
      "{", "}">>

Ord(c) == CHOOSE i \in 1..Len(Alphabet) : Alphabet[i] = c

\* Ordering of String (byte-wise lexicographic), as BTreeMap<String, _> uses it.
RECURSIVE StrLess(_, _)
StrLess(a, b) ==
    IF b = <<>> THEN FALSE
    ELSE IF a = <<>> THEN TRUE
    ELSE IF Head(a) = Head(b) THEN StrLess(Tail(a), Tail(b))
    ELSE Ord(Head(a)) < Ord(Head(b))

RECURSIVE Concat(_)
Concat(ss) == IF ss = <<>> THEN <<>> ELSE Head(ss) \o Concat(Tail(ss))

\* [&str]::join
RECURSIVE Join(_, _)
Join(ss, sep) ==
    IF ss = <<>> THEN <<>>
    ELSE IF Len(ss) = 1 THEN ss[1]
    ELSE ss[1] \o sep \o Join(Tail(ss), sep)

Spaces(n) == [i \in 1..n |-> " "]

StartsWith(s, p) == Len(p) <= Len(s) /\ SubSeq(s, 1, Len(p)) = p

EndsWith(s, p) == Len(p) <= Len(s) /\ SubSeq(s, Len(s) - Len(p) + 1, Len(s)) = p

Contains(s, p) == \E i \in 1..(Len(s) - Len(p) + 1) : SubSeq(s, i, i + Len(p) - 1) = p

IsWhitespace(c) == c \in {" ", "\n"}

\* str::trim
RECURSIVE TrimStart(_)
TrimStart(s) == IF s # <<>> /\ IsWhitespace(Head(s)) THEN TrimStart(Tail(s)) ELSE s

RECURSIVE TrimEnd(_)
TrimEnd(s) ==
    IF s # <<>> /\ IsWhitespace(s[Len(s)]) THEN TrimEnd(SubSeq(s, 1, Len(s) - 1)) ELSE s

Trim(s) == TrimEnd(TrimStart(s))

Digit(d) == Alphabet[Ord("0") + d]

\* i64 / usize Display
RECURSIVE NatToString(_)
NatToString(n) == IF n < 10 THEN <<Digit(n)>> ELSE NatToString(n \div 10) \o <<Digit(n % 10)>>

IntToString(n) == IF n < 0 THEN <<"-">> \o NatToString(-n) ELSE NatToString(n)

-----------------------------------------------------------------------------
(* Option<T>.                                                              *)

None == [some |-> FALSE]
Some(x) == [some |-> TRUE, val |-> x]
IsSome(o) == o.some
IsNone(o) == ~o.some

-----------------------------------------------------------------------------
(* serde_json::Value.                                                      *)

VNull == [t |-> "null", v |-> 0]
VBool(b) == [t |-> "bool", v |-> b]
VNum(n) == [t |-> "num", v |-> n]          \* an i64
VFloat(repr) == [t |-> "float", v |-> repr] \* a finite f64, kept by its Display text
VStr(s) == [t |-> "str", v |-> s]
VArr(items) == [t |-> "arr", v |-> items]
VObj(entries) == [t |-> "obj", v |-> entries]   \* entries: <<[k |-> key, v |-> value], ...>>

Entry(key, value) == [k |-> key, v |-> value]

IsStr(x) == x.t = "str"
IsArr(x) == x.t = "arr"
IsObj(x) == x.t = "obj"

\* serde_json::Map::get on the entries of an object
MapHas(entries, key) == \E i \in 1..Len(entries) : entries[i].k = key

MapGet(entries, key) == entries[CHOOSE i \in 1..Len(entries) : entries[i].k = key].v

\* serde_json::Map::insert (a BTreeMap: entries sorted by key, an existing key's value replaced)
RECURSIVE MapInsert(_, _, _)
MapInsert(entries, key, value) ==
    IF entries = <<>> THEN <<Entry(key, value)>>
    ELSE IF Head(entries).k = key THEN <<Entry(key, value)>> \o Tail(entries)
    ELSE IF StrLess(key, Head(entries).k) THEN <<Entry(key, value)>> \o entries
    ELSE <<Head(entries)>> \o MapInsert(Tail(entries), key, value)

\* Value::get(key): Some(value) for an object holding the key, None otherwise
Get(x, key) == IF IsObj(x) /\ MapHas(x.v, key) THEN Some(MapGet(x.v, key)) ELSE None

\* Value::get(key).and_then(|v| v.as_str())
GetStr(x, key) ==
    IF IsSome(Get(x, key)) /\ IsStr(Get(x, key).val) THEN Some(Get(x, key).val.v) ELSE None

\* Value::get(key).and_then(|v| v.as_array())
GetArr(x, key) ==
    IF IsSome(Get(x, key)) /\ IsArr(Get(x, key).val) THEN Some(Get(x, key).val.v) ELSE None

\* Value::get(key).and_then(|v| v.as_object())
GetObj(x, key) ==
    IF IsSome(Get(x, key)) /\ IsObj(Get(x, key).val) THEN Some(Get(x, key).val.v) ELSE None

-----------------------------------------------------------------------------
(* std::collections::HashMap<String, V>: a function from its keys.         *)

EmptyMap == [k \in {} |-> 0]

\* A table that keeps the first value written to a key (HashMap::entry().or_insert
\* where the compiler calls insert): what "last write wins" rules out
HashKeep(m, key, value) ==
    [k \in (DOMAIN m) \cup {key} |-> IF k \in DOMAIN m THEN m[k] ELSE value]

\* HashMap::insert: the last write to a key wins
HashInsert(m, key, value) == [k \in (DOMAIN m) \cup {key} |-> IF k = key THEN value ELSE m[k]]

HashIsEmpty(m) == DOMAIN m = {}

-----------------------------------------------------------------------------
(* The AST (src/src/ast.rs): one record per node, tagged by its variant.   *)
(* Positions are left out: neither the compiler nor the decompiler reads   *)
(* them.                                                                   *)

\* The variants of AstNodeEnum, in declaration order (discriminants 0, 1, ...).
AstNodeEnumVariants ==
    <<"Module", "Comment", "Symbol", "StringLiteral", "MultiLineStringLiteral",
      "NumberLiteral", "FloatLiteral", "BoolLiteral", "DateTimeLiteral", "DateLiteral",
      "NullLiteral", "DictStatement", "DictItem", "ListStatement", "TupleStatement",
      "SetStatement", "Import", "ImportItem", "AttrDef", "RefDef", "VarDef", "GraphDef",
      "NodeDef", "NodeBlock", "NodeInputTuple", "NodeInputKeyDef", "NodeInputKeyItem",
      "NodeInputValues", "NodeAttr", "ConditionDef", "ConditionBlock",
      "ConditionStatement", "ForLoopBlock", "OpDef", "OpMeta", "OpInput", "OpOutput",
      "OpConfig", "OpSpec", "OpSpecItem", "ClosedInterval", "MixInterval">>

\* std::mem::discriminant(node), as an index
Discriminant(node) ==
    (CHOOSE i \in 1..Len(AstNodeEnumVariants) : AstNodeEnumVariants[i] = node.kind) - 1

Module(children) == [kind |-> "Module", children |-> children]
Comment(value) == [kind |-> "Comment", value |-> value]
Symbol(name) == [kind |-> "Symbol", name |-> name]
StringLiteral(value) == [kind |-> "StringLiteral", value |-> value]
MultiLineStringLiteral(value) == [kind |-> "MultiLineStringLiteral", value |-> value]
NumberLiteral(value) == [kind |-> "NumberLiteral", value |-> value]
\* an f64: finite (with its Display text) or not (inf, NaN)
FloatLiteral(finite, repr) == [kind |-> "FloatLiteral", finite |-> finite, repr |-> repr]
BoolLiteral(value) == [kind |-> "BoolLiteral", value |-> value]
DateLiteral(value) == [kind |-> "DateLiteral", value |-> value]
NullLiteral == [kind |-> "NullLiteral"]
DictItem(key, value) == [kind |-> "DictItem", key |-> key, value |-> value]
DictStatement(items) == [kind |-> "DictStatement", items |-> items]
ListStatement(items) == [kind |-> "ListStatement", items |-> items]
TupleStatement(items) == [kind |-> "TupleStatement", items |-> items]
Import(items) == [kind |-> "Import", items |-> items]
AttrDef(name, value) == [kind |-> "AttrDef", name |-> Symbol(name), value |-> value]
\* alias: Option<Symbol>
VarDef(children, alias) == [kind |-> "VarDef", children |-> children, alias |-> alias]
GraphDef(children, alias, version, template_graph, template_version) ==
    [kind |-> "GraphDef", children |-> children, alias |-> alias, version |-> version,
     template_graph |-> template_graph, template_version |-> template_version]
\* NodeInputDef::Tuple(NodeInputTuple) / NodeInputDef::KeyValue(NodeInputKeyDef)
NodeInputTuple(items) == [kind |-> "Tuple", items |-> items]
NodeInputKeyItem(key, values) == [key |-> Symbol(key), value |-> [items |-> values]]
NodeInputKeyDef(items) == [kind |-> "KeyValue", items |-> items]
\* NodeAttrValue::Symbol / ::String / ::List
AttrSymbol(name) == [kind |-> "Symbol", symbol |-> Symbol(name)]
AttrString(value) == [kind |-> "String", string_lit |-> StringLiteral(value)]
AttrList(items) == [kind |-> "List", list |-> items]
NodeAttr(name, value) == [kind |-> "NodeAttr", name |-> Symbol(name), value |-> value]
\* inputs: Option<NodeInputDef>, attrs: Option<Vec<NodeAttr>>
NodeBlock(name, inputs, attrs) ==
    [kind |-> "NodeBlock", name |-> Symbol(name), inputs |-> inputs, attrs |-> attrs]
NodeDef(outputs, value) == [kind |-> "NodeDef", outputs |-> outputs, value |-> value]
\* alias: Option<Symbol>, version: Option<String>
OpDef(children, alias, version) ==
    [kind |-> "OpDef", children |-> children, alias |-> alias, version |-> version]
OpMeta(children) == [kind |-> "OpMeta", children |-> children]
OpInput(children) == [kind |-> "OpInput", children |-> children]
OpOutput(children) == [kind |-> "OpOutput", children |-> children]
OpConfig(children) == [kind |-> "OpConfig", children |-> children]
OpSpecItem(name, value) == [kind |-> "OpSpecItem", name |-> name, value |-> value]
\* items: Option<Vec<OpSpecItem>>
OpSpec(name, items) == [kind |-> "OpSpec", name |-> Symbol(name), items |-> items]

-----------------------------------------------------------------------------
(* Value's Display (compact JSON), used by Value::to_string.               *)

\* serde_json's string escaping, for the characters of the model
RECURSIVE EscapeJson(_)
EscapeJson(s) ==
    IF s = <<>> THEN <<>>
    ELSE (CASE Head(s) = "\"" -> <<"\\", "\"">>
            [] Head(s) = "\\" -> <<"\\", "\\">>
            [] Head(s) = "\n" -> <<"\\", "n">>
            [] OTHER -> <<Head(s)>>) \o EscapeJson(Tail(s))

RECURSIVE ToJson(_)
ToJson(x) ==
    CASE x.t = "null" -> <<"n", "u", "l", "l">>
      [] x.t = "bool" -> IF x.v THEN <<"t", "r", "u", "e">> ELSE <<"f", "a", "l", "s", "e">>
      [] x.t = "num" -> IntToString(x.v)
      [] x.t = "float" -> x.v
      [] x.t = "str" -> <<"\"">> \o EscapeJson(x.v) \o <<"\"">>
      [] x.t = "arr" ->
            <<"[">> \o Join([i \in 1..Len(x.v) |-> ToJson(x.v[i])], <<",">>) \o <<"]">>
      [] x.t = "obj" ->
            <<"{">>
            \o Join([i \in 1..Len(x.v) |->
                        <<"\"">> \o EscapeJson(x.v[i].k) \o <<"\"", ":">> \o ToJson(x.v[i].v)],
                    <<",">>)
            \o <<"}">>

-----------------------------------------------------------------------------
(* The Compiler (src/src/compiler.rs).                                     *)

GosVersion == <<"0", ".", "5", ".", "2">>

RootError == "Expected Module as root AST node"

UnsupportedPrefix ==
    <<"u", "n", "s", "u", "p", "p", "o", "r", "t", "e", "d", "_", "a", "s", "t", "_",
      "n", "o", "d", "e", "_", "D", "i", "s", "c", "r", "i", "m", "i", "n", "a", "n", "t", "(">>

\* Convert AST node to JSON value
RECURSIVE convert_ast_to_value(_)
RECURSIVE convert_dict_items(_, _, _)
convert_dict_items(items, i, map) ==
    IF i > Len(items) THEN map
    ELSE LET k == convert_ast_to_value(items[i].key)
             key == IF IsStr(k) THEN k.v ELSE ToJson(k)
         IN  convert_dict_items(items, i + 1,
                                MapInsert(map, key, convert_ast_to_value(items[i].value)))

convert_ast_to_value(node) ==
    CASE node.kind = "StringLiteral" -> VStr(node.value)
      [] node.kind = "MultiLineStringLiteral" -> VStr(node.value)
      [] node.kind = "NumberLiteral" -> VNum(node.value)
      [] node.kind = "FloatLiteral" -> IF node.finite THEN VFloat(node.repr) ELSE VNull
      [] node.kind = "BoolLiteral" -> VBool(node.value)
      [] node.kind = "NullLiteral" -> VNull
      [] node.kind = "Symbol" -> VStr(node.name)
      [] node.kind = "ListStatement" ->
            VArr([i \in 1..Len(node.items) |-> convert_ast_to_value(node.items[i])])
      [] node.kind = "DictStatement" -> VObj(convert_dict_items(node.items, 1, <<>>))
      [] OTHER -> VStr(UnsupportedPrefix \o NatToString(Discriminant(node)) \o <<")">>)

\* A resolution that looks a string up and then looks the stored value up once
\* more: the transitive substitution that single-step resolution rules out
RECURSIVE resolve_two_steps(_, _)
resolve_two_steps(value, vs) ==
    CASE value.t = "str" ->
            IF value.v \in DOMAIN vs
            THEN IF vs[value.v].t = "str" /\ vs[value.v].v \in DOMAIN vs
                 THEN vs[vs[value.v].v] ELSE vs[value.v]
            ELSE value
      [] value.t = "arr" ->
            VArr([i \in 1..Len(value.v) |-> resolve_two_steps(value.v[i], vs)])
      [] value.t = "obj" ->
            VObj([i \in 1..Len(value.v) |->
                    Entry(value.v[i].k, resolve_two_steps(value.v[i].v, vs))])
      [] OTHER -> value

\* A resolution that looks at the value itself only and does not recurse into
\* arrays and objects
resolve_shallow(value, vs) ==
    IF value.t = "str" /\ value.v \in DOMAIN vs THEN vs[value.v] ELSE value

\* Resolve variable references in values
RECURSIVE resolve_variable_references(_, _)
resolve_variable_references(value, vs) ==
    CASE value.t = "str" -> IF value.v \in DOMAIN vs THEN vs[value.v] ELSE value
      [] value.t = "arr" ->
            VArr([i \in 1..Len(value.v) |-> resolve_variable_references(value.v[i], vs)])
      [] value.t = "obj" ->
            VObj([i \in 1..Len(value.v) |->
                    Entry(value.v[i].k, resolve_variable_references(value.v[i].v, vs))])
      [] OTHER -> value

\* Helper function to extract string value from AST node
extract_string_value(node) ==
    CASE node.kind = "StringLiteral" -> Some(node.value)
      [] node.kind = "Symbol" -> Some(node.name)
      [] OTHER -> None

\* Option<Box<AstNodeEnum>>::as_ref().and_then(|v| self.extract_string_value(v))
extract_optional_string(o) == IF IsSome(o) THEN extract_string_value(o.val) ELSE None

\* Helper function to convert Value to String
value_to_string(value) == IF value.t = "str" THEN Some(value.v) ELSE None

\* Helper function to convert Value to bool
value_to_bool(value) == IF value.t = "bool" THEN Some(value.v) ELSE None

\* A key that leaves the alias of the block out
bare_key(var_def, attr_def) == Trim(attr_def.name.name)

\* The key an attribute of a variable block is stored under (process_var_def)
var_key(var_def, attr_def) ==
    IF IsSome(var_def.alias)
    THEN var_def.alias.val.name \o <<".">> \o Trim(attr_def.name.name)
    ELSE Trim(attr_def.name.name)

RECURSIVE process_var_children(_, _, _)
process_var_children(var_def, i, vs) ==
    IF i > Len(var_def.children) THEN vs
    ELSE LET child == var_def.children[i]
         IN  IF child.kind = "AttrDef"
             THEN process_var_children(var_def, i + 1,
                      HashInsert(vs, var_key(var_def, child), convert_ast_to_value(child.value)))
             ELSE process_var_children(var_def, i + 1, vs)

\* Add alias information if present (process_var_def)
var_alias_entry(var_def, vs) ==
    IF IsSome(var_def.alias)
    THEN HashInsert(vs, var_def.alias.val.name \o <<".", "a", "s">>, VStr(var_def.alias.val.name))
    ELSE vs

\* Process variable definition: the variable table after the block
process_var_def(var_def, vs) == var_alias_entry(var_def, process_var_children(var_def, 1, vs))

NodeDict(op_name, outputs, inputs, with_) ==
    [op_name |-> op_name, ref_graph |-> None, version |-> None, outputs |-> outputs,
     inputs |-> inputs, depends |-> None, with |-> with_, properties |-> None,
     alias |-> None, override_flag |-> None, for_loop |-> None]

Names(symbols) == [i \in 1..Len(symbols) |-> symbols[i].name]

\* The names a NodeInputDef lists: the tuple's items, or every key's values in order
input_names(inputs) ==
    IF inputs.kind = "Tuple" THEN Names(inputs.items)
    ELSE Concat([i \in 1..Len(inputs.items) |-> Names(inputs.items[i].value.items)])

\* Extract node inputs from NodeBlock
extract_node_inputs(node_block) ==
    IF IsSome(node_block.inputs) THEN Some(input_names(node_block.inputs.val)) ELSE None

\* The Value of a NodeAttrValue
attr_value(attr) ==
    CASE attr.value.kind = "Symbol" -> VStr(attr.value.symbol.name)
      [] attr.value.kind = "String" -> VStr(attr.value.string_lit.value)
      [] attr.value.kind = "List" ->
            VArr([i \in 1..Len(attr.value.list) |-> convert_ast_to_value(attr.value.list[i])])

RECURSIVE extract_attrs_loop(_, _, _, _)
extract_attrs_loop(attrs, i, vs, with_props) ==
    IF i > Len(attrs) THEN with_props
    ELSE extract_attrs_loop(attrs, i + 1, vs,
            HashInsert(with_props, attrs[i].name.name,
                       resolve_variable_references(attr_value(attrs[i]), vs)))

\* Extract node attributes from NodeBlock
extract_node_attributes(node_block, vs) ==
    LET non_empty(with_props) ==
            IF HashIsEmpty(with_props) THEN None ELSE Some(with_props)
    IN  IF IsSome(node_block.attrs)
        THEN non_empty(extract_attrs_loop(node_block.attrs.val, 1, vs, EmptyMap))
        ELSE None

\* One attribute of an explicit node definition (convert_node_def's match on its name);
\* st = [node |-> the NodeDict so far, with_props |-> the `with` map so far]
node_attr_step(st, attr, vs) ==
    LET name == attr.name.name
        set(resolved_value) ==
            CASE name = <<"v", "e", "r", "s", "i", "o", "n">> ->
                    [st EXCEPT !.node.version = value_to_string(resolved_value)]
              [] name = <<"a", "s">> ->
                    [st EXCEPT !.node.alias = value_to_string(resolved_value)]
              [] name = <<"o", "v", "e", "r", "r", "i", "d", "e">> ->
                    [st EXCEPT !.node.override_flag = value_to_bool(resolved_value)]
              [] OTHER ->
                    [st EXCEPT !.with_props = HashInsert(st.with_props, name, resolved_value)]
    IN  set(resolve_variable_references(attr_value(attr), vs))

RECURSIVE node_attrs_loop(_, _, _, _)
node_attrs_loop(attrs, i, vs, st) ==
    IF i > Len(attrs) THEN st
    ELSE node_attrs_loop(attrs, i + 1, vs, node_attr_step(st, attrs[i], vs))

\* Convert node definition to dictionary
convert_node_def(node_def, vs) ==
    LET node_dict ==
            NodeDict(Some(node_def.value.name.name), Some(Names(node_def.outputs)),
                     IF IsSome(node_def.value.inputs)
                     THEN Some(input_names(node_def.value.inputs.val)) ELSE None,
                     None)
        finish(st) == IF HashIsEmpty(st.with_props) THEN st.node
                      ELSE [st.node EXCEPT !.with = Some(st.with_props)]
    IN  IF IsSome(node_def.value.attrs)
        THEN finish(node_attrs_loop(node_def.value.attrs.val, 1, vs,
                                    [node |-> node_dict, with_props |-> EmptyMap]))
        ELSE node_dict

NodePrefix == <<"n", "o", "d", "e", "_">>

\* The key a NodeDef is stored under: its first output, or a generated one
node_key(node_def, nodes) ==
    IF node_def.outputs # <<>> THEN node_def.outputs[1].name
    ELSE NodePrefix \o NatToString(Cardinality(DOMAIN nodes))

\* One child of a graph block (convert_graph_def's match);
\* st = [properties |-> HashMap, nodes |-> HashMap]
graph_child_step(st, child, vs) ==
    CASE child.kind = "AttrDef" ->
            IF child.value.kind = "NodeBlock"
            THEN [st EXCEPT !.nodes =
                    HashInsert(st.nodes, child.name.name,
                        NodeDict(Some(child.value.name.name), Some(<<child.name.name>>),
                                 extract_node_inputs(child.value),
                                 extract_node_attributes(child.value, vs)))]
            ELSE [st EXCEPT !.properties =
                    HashInsert(st.properties, child.name.name,
                        resolve_variable_references(convert_ast_to_value(child.value), vs))]
      [] child.kind = "NodeDef" ->
            [st EXCEPT !.nodes =
                HashInsert(st.nodes, node_key(child, st.nodes), convert_node_def(child, vs))]
      [] OTHER -> st

RECURSIVE graph_children_loop(_, _, _, _)
graph_children_loop(children, i, vs, st) ==
    IF i > Len(children) THEN st
    ELSE graph_children_loop(children, i + 1, vs, graph_child_step(st, children[i], vs))

\* Option<T> of a collection: Some only if not empty
NonEmptyMap(m) == IF HashIsEmpty(m) THEN None ELSE Some(m)

\* Convert graph definition to dictionary
convert_graph_def(graph_def, vs) ==
    LET finish(st) ==
            [properties |-> NonEmptyMap(st.properties),
             nodes |-> NonEmptyMap(st.nodes),
             alias |-> IF IsSome(graph_def.alias) THEN Some(graph_def.alias.val.name) ELSE None,
             version |-> extract_optional_string(graph_def.version),
             template_graph |-> IF IsSome(graph_def.template_graph)
                                THEN Some(graph_def.template_graph.val.name) ELSE None,
             template_version |-> extract_optional_string(graph_def.template_version)]
    IN  finish(graph_children_loop(graph_def.children, 1, vs,
                                   [properties |-> EmptyMap, nodes |-> EmptyMap]))

RECURSIVE op_spec_items_loop(_, _, _, _)
op_spec_items_loop(items, i, vs, spec_dict) ==
    IF i > Len(items) THEN spec_dict
    ELSE op_spec_items_loop(items, i + 1, vs,
            HashInsert(spec_dict, items[i].name,
                       resolve_variable_references(convert_ast_to_value(items[i].value), vs)))

\* Convert operation specification to dictionary
convert_op_spec(spec, vs) ==
    IF IsSome(spec.items) THEN op_spec_items_loop(spec.items.val, 1, vs, EmptyMap) ELSE EmptyMap

\* The OpSpec children of an input / output / config section, inserted by spec name
RECURSIVE op_specs_loop(_, _, _, _)
op_specs_loop(children, i, vs, specs) ==
    IF i > Len(children) THEN specs
    ELSE IF children[i].kind = "OpSpec"
         THEN op_specs_loop(children, i + 1, vs,
                  HashInsert(specs, children[i].name.name, convert_op_spec(children[i], vs)))
         ELSE op_specs_loop(children, i + 1, vs, specs)

RECURSIVE op_meta_loop(_, _, _, _)
op_meta_loop(children, i, vs, metas) ==
    IF i > Len(children) THEN metas
    ELSE op_meta_loop(children, i + 1, vs,
            HashInsert(metas, children[i].name.name,
                       resolve_variable_references(convert_ast_to_value(children[i].value), vs)))

\* One child of an operation block (convert_op_def's match);
\* st = [metas, inputs, outputs, configs], each a HashMap
op_child_step(st, child, vs) ==
    CASE child.kind = "OpMeta" ->
            [st EXCEPT !.metas = op_meta_loop(child.children, 1, vs, st.metas)]
      [] child.kind = "OpInput" ->
            [st EXCEPT !.inputs = op_specs_loop(child.children, 1, vs, st.inputs)]
      [] child.kind = "OpOutput" ->
            [st EXCEPT !.outputs = op_specs_loop(child.children, 1, vs, st.outputs)]
      [] child.kind = "OpConfig" ->
            [st EXCEPT !.configs = op_specs_loop(child.children, 1, vs, st.configs)]
      [] OTHER -> st

RECURSIVE op_children_loop(_, _, _, _)
op_children_loop(children, i, vs, st) ==
    IF i > Len(children) THEN st
    ELSE op_children_loop(children, i + 1, vs, op_child_step(st, children[i], vs))

\* Add alias and version to metas if present (convert_op_def)
op_seed_metas(op_def) ==
    LET m1 == IF IsSome(op_def.alias)
              THEN HashInsert(EmptyMap, <<"a", "s">>, VStr(op_def.alias.val.name))
              ELSE EmptyMap
    IN  IF IsSome(op_def.version)
        THEN HashInsert(m1, <<"v", "e", "r", "s", "i", "o", "n">>, VStr(op_def.version.val))
        ELSE m1

\* Convert operation definition to dictionary
convert_op_def(op_def, vs) ==
    LET finish(st) ==
            [metas |-> NonEmptyMap(st.metas), inputs |-> NonEmptyMap(st.inputs),
             outputs |-> NonEmptyMap(st.outputs), configs |-> NonEmptyMap(st.configs),
             graph |-> None]
    IN  finish(op_children_loop(op_def.children, 1, vs,
                   [metas |-> op_seed_metas(op_def), inputs |-> EmptyMap,
                    outputs |-> EmptyMap, configs |-> EmptyMap]))

\* The field set whatever the vector holds, an empty one included
PresentVec(v) == Some(v)

\* Set results if not empty (compile_module)
NonEmptyVec(v) == IF v = <<>> THEN None ELSE Some(v)

CompileResult(gs, os, vs) ==
    [graphs |-> NonEmptyVec(gs), ops |-> NonEmptyVec(os), vars |-> NonEmptyMap(vs),
     gos_version |-> GosVersion, op_names |-> None, subgraphs |-> None]

Ok(x) == [ok |-> TRUE, val |-> x]
Err(e) == [ok |-> FALSE, err |-> e]

NotReturned == [returned |-> FALSE]

-----------------------------------------------------------------------------
(* The inputs the compiler is run on.                                      *)

sA == <<"a">>
sB == <<"b">>
sC == <<"c">>
sF == <<"f">>
sG == <<"g">>
sK == <<"k">>
sM == <<"m">>
sN == <<"n">>
sP == <<"p">>
sQ == <<"q">>
sV == <<"v">>
sX == <<"x">>
sY == <<"y">>
sOp == <<"o", "p">>
sAs == <<"a", "s">>
sVersion == <<"v", "e", "r", "s", "i", "o", "n">>
sOverride == <<"o", "v", "e", "r", "r", "i", "d", "e">>
sTrue == <<"t", "r", "u", "e">>
sCN == <<"c", ".", "n">>
sCV == <<"c", ".", "v">>
sCAs == <<"c", ".", "a", "s">>
sV1 == <<"1", ".", "0", ".", "0">>

\* var { n = "x"; v = 42; } as c;
VarA == VarDef(<<AttrDef(sN, StringLiteral(sX)), AttrDef(sV, NumberLiteral(42))>>,
               Some(Symbol(sC)))

\* var { n = c.n; /* comment */ f = true; };        (no alias)
VarB == VarDef(<<AttrDef(sN, Symbol(sCN)), Comment(sX), AttrDef(sF, BoolLiteral(TRUE))>>, None)

\* var { n = 1; n = [n, {7: inf, k: c.v}, (x)]; v = 1.5; } as c;
\* (the second attribute's name carries the blanks the compiler trims)
VarC == VarDef(<<AttrDef(sN, NumberLiteral(1)),
                 AttrDef(<<" ", "n", " ">>,
                         ListStatement(<<Symbol(sN),
                                         DictStatement(<<DictItem(NumberLiteral(7),
                                                                  FloatLiteral(FALSE, <<>>)),
                                                         DictItem(StringLiteral(sK),
                                                                  Symbol(sCV))>>),
                                         TupleStatement(<<Symbol(sX)>>)>>)),
                 AttrDef(sV, FloatLiteral(TRUE, <<"1", ".", "5">>))>>,
               Some(Symbol(sC)))

\* graph { p = n; q = [c.n, {c.n: c.v}, "c.nx", 3]; a = op(x, y).m(c.n).version('1.0.0'); } as g;
GraphA ==
    GraphDef(<<AttrDef(sP, Symbol(sN)),
               AttrDef(sQ, ListStatement(<<Symbol(sCN),
                                           DictStatement(<<DictItem(StringLiteral(sCN),
                                                                    Symbol(sCV))>>),
                                           StringLiteral(<<"c", ".", "n", "x">>),
                                           NumberLiteral(3)>>)),
               Comment(sX),
               AttrDef(sA, NodeBlock(sOp, Some(NodeInputTuple(<<Symbol(sX), Symbol(sY)>>)),
                                     Some(<<NodeAttr(sM, AttrSymbol(sCN)),
                                            NodeAttr(sVersion, AttrString(sV1))>>)))>>,
             Some(Symbol(sG)), None, None, None)

\* graph : g.version('1.0.0') {
\*   a, b = op(n, x).version('1.0.0').as(c).override(true).m([n]).k(c.n);
\*   = op();                      (a node definition with no outputs)
\*   x = op(k=(x, y), m=(n)).override(f).version(n).as(q);
\* } as g.version(v);
GraphB ==
    GraphDef(<<NodeDef(<<Symbol(sA), Symbol(sB)>>,
                       NodeBlock(sOp, Some(NodeInputTuple(<<Symbol(sN), Symbol(sX)>>)),
                                 Some(<<NodeAttr(sVersion, AttrString(sV1)),
                                        NodeAttr(sAs, AttrSymbol(sC)),
                                        NodeAttr(sOverride, AttrSymbol(sTrue)),
                                        NodeAttr(sM, AttrList(<<Symbol(sN)>>)),
                                        NodeAttr(sK, AttrSymbol(sCN))>>))),
               NodeDef(<<>>, NodeBlock(sOp, Some(NodeInputTuple(<<>>)), None)),
               NodeDef(<<Symbol(sX)>>,
                       NodeBlock(sOp,
                                 Some(NodeInputKeyDef(
                                        <<NodeInputKeyItem(sK, <<Symbol(sX), Symbol(sY)>>),
                                          NodeInputKeyItem(sM, <<Symbol(sN)>>)>>)),
                                 Some(<<NodeAttr(sOverride, AttrSymbol(sF)),
                                        NodeAttr(sVersion, AttrSymbol(sN)),
                                        NodeAttr(sAs, AttrSymbol(sQ))>>)))>>,
             Some(Symbol(sG)), Some(Symbol(sV)), Some(Symbol(sG)),
             Some(StringLiteral(sV1)))

\* graph { y = op; = op.version('1.0.0'); };   (no alias; nodes without inputs, one
\* of them with special attributes only, so with an empty `with`)
GraphC ==
    GraphDef(<<NodeDef(<<Symbol(sY)>>, NodeBlock(sOp, None, None)),
               NodeDef(<<>>, NodeBlock(sOp, None,
                                       Some(<<NodeAttr(sVersion, AttrString(sV1))>>)))>>,
             None, Some(NumberLiteral(1)), None, None)

\* op { meta { m = n; } input { a: (p = c.n, q = 3); b: (); } output { x: (p = n); }
\*      config { k: (); } } as c.version('1.0.0');
OpA ==
    OpDef(<<OpMeta(<<AttrDef(sM, Symbol(sN))>>),
            OpInput(<<OpSpec(sA, Some(<<OpSpecItem(sP, Symbol(sCN)),
                                        OpSpecItem(sQ, NumberLiteral(3))>>)),
                      Comment(sX),
                      OpSpec(sB, None)>>),
            OpOutput(<<OpSpec(sX, Some(<<OpSpecItem(sP, Symbol(sN))>>))>>),
            OpConfig(<<OpSpec(sK, Some(<<>>))>>),
            Comment(sX)>>,
          Some(Symbol(sC)), Some(sV1))

\* op { meta { } input { } };
OpB == OpDef(<<OpMeta(<<>>), OpInput(<<>>)>>, None, None)

\* Statements compile_module skips: an import, a comment, a stray node
OtherStatements == {Import(<<>>), Comment(sX), TupleStatement(<<Symbol(sN)>>)}

Statements == {VarA, VarB, VarC, GraphA, GraphB, GraphC, OpA, OpB} \cup OtherStatements

Modules == UNION {[1..n -> Statements] : n \in 0..MaxChildren}

\* Roots that are not a Module
OtherRoots == {VarA, GraphA, OpA, Symbol(sN), Comment(sX)}

Roots == {Module(children) : children \in Modules} \cup OtherRoots

-----------------------------------------------------------------------------
(* The compiler as a state machine: Compiler::compile, then one step per   *)
(* iteration of compile_module's loop over the Module's children.          *)

\* DecompileOptions::default(): indent 4, max_col 100
DefaultIndent == 4
DefaultMaxCol == 100

DefaultOptions ==
    [indent |-> DefaultIndent, max_col |-> DefaultMaxCol, unescape |-> FALSE,
     keep_order |-> FALSE]

compilerVars == <<ast, pc, idx, vars, graphs, ops, result>>
decompilerVars == <<ir, opts, OPTIONS, out>>

\* A compile that takes a variable block for a root as well
IsModuleOrBlock(node) == node.kind \in {"Module", "VarDef"}

\* compile: the match on the root, `AstNodeEnum::Module(module) =>`
IsModule(node) == node.kind = "Module"

\* compile: the root is a Module, compile_module starts with empty collections
CompileModule ==
    /\ pc = "start"
    /\ IsModule(ast)
    /\ pc' = "loop"
    /\ idx' = 1
    /\ vars' = EmptyMap
    /\ graphs' = <<>>
    /\ ops' = <<>>
    /\ UNCHANGED <<ast, result>>
    /\ UNCHANGED decompilerVars

\* compile: any other root is the General error
CompileReject ==
    /\ pc = "start"
    /\ ~IsModule(ast)
    /\ result' = Err(RootError)
    /\ pc' = "done"
    /\ UNCHANGED <<ast, idx, vars, graphs, ops>>
    /\ UNCHANGED decompilerVars

InLoop == pc = "loop" /\ idx <= Len(ast.children)

\* AstNodeEnum::VarDef(var_def) => self.process_var_def(var_def, &mut vars)?
ProcessVarDef ==
    /\ InLoop
    /\ ast.children[idx].kind = "VarDef"
    /\ vars' = process_var_def(ast.children[idx], vars)
    /\ idx' = idx + 1
    /\ UNCHANGED <<ast, pc, graphs, ops, result>>
    /\ UNCHANGED decompilerVars

\* AstNodeEnum::GraphDef(graph_def) => graphs.push(self.convert_graph_def(graph_def, &vars)?)
ConvertGraphDef ==
    /\ InLoop
    /\ ast.children[idx].kind = "GraphDef"
    /\ graphs' = Append(graphs, convert_graph_def(ast.children[idx], vars))
    /\ idx' = idx + 1
    /\ UNCHANGED <<ast, pc, vars, ops, result>>
    /\ UNCHANGED decompilerVars

\* AstNodeEnum::OpDef(op_def) => ops.push(self.convert_op_def(op_def, &vars)?)
ConvertOpDef ==
    /\ InLoop
    /\ ast.children[idx].kind = "OpDef"
    /\ ops' = Append(ops, convert_op_def(ast.children[idx], vars))
    /\ idx' = idx + 1
    /\ UNCHANGED <<ast, pc, vars, graphs, result>>
    /\ UNCHANGED decompilerVars

\* Import, Comment and every other statement: nothing is done
SkipStatement ==
    /\ InLoop
    /\ ast.children[idx].kind \notin {"VarDef", "GraphDef", "OpDef"}
    /\ idx' = idx + 1
    /\ UNCHANGED <<ast, pc, vars, graphs, ops, result>>
    /\ UNCHANGED decompilerVars

\* After the loop: set results if not empty, return Ok(result)
FinishModule ==
    /\ pc = "loop"
    /\ idx > Len(ast.children)
    /\ result' = Ok(CompileResult(graphs, ops, vars))
    /\ pc' = "done"
    /\ UNCHANGED <<ast, idx, vars, graphs, ops>>
    /\ UNCHANGED decompilerVars

CompileInit ==
    /\ ast \in Roots
    /\ pc = "start"
    /\ idx = 1
    /\ vars = EmptyMap
    /\ graphs = <<>>
    /\ ops = <<>>
    /\ result = NotReturned
    /\ ir = VNull
    /\ opts = None
    /\ OPTIONS = DefaultOptions
    /\ out = NotReturned

-----------------------------------------------------------------------------
(* The Decompiler (src/src/decompiler.rs).                                 *)

\* An error message: a fixed text and the value formatted into it
Message(text, arg) == [msg |-> text, arg |-> arg]

\* str::replace: every non-overlapping occurrence of pat, left to right
RECURSIVE Replace(_, _, _)
Replace(s, pat, rep) ==
    IF s = <<>> THEN <<>>
    ELSE IF StartsWith(s, pat)
         THEN rep \o Replace(SubSeq(s, Len(pat) + 1, Len(s)), pat, rep)
         ELSE <<Head(s)>> \o Replace(Tail(s), pat, rep)

\* The unescaping of one string leaf (unescape_dfs)
unescape_string(s) ==
    Replace(Replace(Replace(Replace(Replace(Replace(s,
        <<"\\", "n">>, <<"\n">>),
        <<"\\", "t">>, <<"\t">>),
        <<"\\", "r">>, <<"\r">>),
        <<"\\", "\\">>, <<"\\">>),
        <<"\\", "\"">>, <<"\"">>),
        <<"\\", "'">>, <<"'">>)

\* Recursively unescape strings in JSON data
RECURSIVE unescape_dfs(_)
unescape_dfs(value) ==
    CASE value.t = "obj" ->
            VObj([i \in 1..Len(value.v) |-> Entry(value.v[i].k, unescape_dfs(value.v[i].v))])
      [] value.t = "arr" -> VArr([i \in 1..Len(value.v) |-> unescape_dfs(value.v[i])])
      [] value.t = "str" -> VStr(unescape_string(value.v))
      [] OTHER -> value

LowerLetters ==
    {"a", "b", "c", "d", "e", "f", "g", "h", "i", "j", "k", "l", "m",
     "n", "o", "p", "q", "r", "s", "t", "u", "v", "w", "x", "y", "z"}
UpperLetters ==
    {"A", "B", "C", "D", "E", "F", "G", "H", "I", "J", "K", "L", "M",
     "N", "O", "P", "Q", "R", "S", "T", "U", "V", "W", "X", "Y", "Z"}
Digits == {"0", "1", "2", "3", "4", "5", "6", "7", "8", "9"}

\* VALID_IDENTIFIER: ^[a-zA-Z_\-$%@][a-zA-Z_\-$%@\.0-9]*$
IdStart == LowerLetters \cup UpperLetters \cup {"_", "-", "$", "%", "@"}
IdRest == IdStart \cup {"."} \cup Digits

\* The character class of VALID_IDENTIFIER's tail applied to every position
valid_identifier_unanchored(value) ==
    /\ value # <<>>
    /\ \A i \in 1..Len(value) : value[i] \in IdRest

VALID_IDENTIFIER(value) ==
    /\ value # <<>>
    /\ value[1] \in IdStart
    /\ \A i \in 2..Len(value) : value[i] \in IdRest

\* Check if identifier is valid
check_id(value) ==
    IF VALID_IDENTIFIER(value) THEN Ok(value)
    ELSE Err(Message("Invalid identifier: {}", value))

\* Check if version string is valid (any version format is allowed)
check_version(value) == Ok(value)

\* Add indentation to buffer
indent(buffer, spaces) ==
    IF spaces > 0 THEN buffer \o <<"\n">> \o Spaces(spaces) ELSE buffer

\* ParamFormatter::format_value
format_value(value) ==
    CASE value.t = "str" -> <<"'">> \o Replace(value.v, <<"'">>, <<"\\", "'">>) \o <<"'">>
      [] value.t = "num" -> IntToString(value.v)
      [] value.t = "float" -> value.v
      [] value.t = "bool" -> IF value.v THEN <<"t", "r", "u", "e">> ELSE <<"f", "a", "l", "s", "e">>
      [] value.t = "null" -> <<"n", "u", "l", "l">>
      [] OTHER -> ToJson(value)

\* A test on the list's single-line length alone, blind to the column it starts at
needs_wrap_by_length(col, candidate, o) == Len(candidate) > o.max_col /\ o.indent > 0

\* The column test every list helper makes before it breaks a line
needs_wrap(col, candidate, o) == col + Len(candidate) > o.max_col /\ o.indent > 0

\* A buffer and the column the helper returns
Cursor(buffer, col) == [buf |-> buffer, col |-> col]

RECURSIVE dfs(_, _, _, _, _)
RECURSIVE dict(_, _, _, _, _)
RECURSIVE list(_, _, _, _, _)
RECURSIVE dict_loop(_, _, _, _, _, _, _, _)
RECURSIVE list_loop(_, _, _, _, _, _, _, _)

\* ParamFormatter::dfs
dfs(buffer, input, col, deep, o) ==
    CASE input.t = "obj" -> dict(buffer, input.v, col, deep + 1, o)
      [] input.t = "arr" -> list(buffer, input.v, col, deep + 1, o)
      [] OTHER -> Cursor(buffer \o format_value(input), col + Len(format_value(input)))

\* ParamFormatter::dict, the one-entry-per-line loop
dict_loop(buffer, inputs, strings, i, col, deep, o, current_col) ==
    IF i > Len(inputs) THEN Cursor(buffer, current_col)
    ELSE LET b0 == indent(buffer, col + o.indent)
             c1 == col + o.indent + Len(strings[i]) + 1
             key == inputs[i].k \o <<":", " ">>
             next(step) ==
                 dict_loop(IF i < Len(inputs) THEN step.buf \o <<",">> ELSE step.buf,
                           inputs, strings, i + 1, col, deep, o, step.col)
         IN  next(IF c1 > o.max_col
                  THEN dfs(b0 \o key, inputs[i].v, col + o.indent + Len(key), deep + 1, o)
                  ELSE Cursor(b0 \o strings[i], c1))

\* ParamFormatter::dict
dict(buffer, inputs, col, deep, o) ==
    LET strings == [i \in 1..Len(inputs) |->
                        inputs[i].k \o <<":", " ">> \o format_value(inputs[i].v)]
        close(r) == Cursor(indent(r.buf, col - 1) \o <<"}">>, r.col + 1)
        fitted(candidate) ==
            IF needs_wrap(col + 1, candidate, o)
            THEN close(dict_loop(buffer \o <<"{">>, inputs, strings, 1, col, deep, o, col + 1))
            ELSE Cursor(buffer \o <<"{">> \o candidate \o <<"}">>, col + Len(candidate) + 1)
    IN  fitted(Join(strings, <<",">>))

\* ParamFormatter::list, the loop over the items
list_loop(buffer, inputs, strings, i, col, deep, o, current_col) ==
    IF i > Len(inputs) THEN Cursor(buffer, current_col)
    ELSE LET c1 == current_col + Len(strings[i]) + 1
             next(step) ==
                 list_loop(IF i < Len(inputs) THEN step.buf \o <<",">> ELSE step.buf,
                           inputs, strings, i + 1, col, deep, o, step.col)
         IN  next(IF c1 > o.max_col
                  THEN dfs(indent(buffer, col), inputs[i], col, deep + 1, o)
                  ELSE Cursor(buffer \o strings[i], c1))

\* ParamFormatter::list
list(buffer, inputs, col, deep, o) ==
    LET strings == [i \in 1..Len(inputs) |-> format_value(inputs[i])]
        close(r) == Cursor(r.buf \o <<"]">>, r.col + 1)
        fitted(candidate) ==
            IF needs_wrap(col + 1, candidate, o)
            THEN close(list_loop(buffer \o <<"[">>, inputs, strings, 1, col, deep, o, col + 1))
            ELSE Cursor(buffer \o <<"[">> \o candidate \o <<"]">>, col + Len(candidate) + 1)
    IN  fitted(Join(strings, <<",">>))

\* The key=value renderings of a parameter map (ParamFormatter::format)
param_strings(obj) ==
    [i \in 1..Len(obj) |-> obj[i].k \o <<"=">> \o format_value(obj[i].v)]

\* ParamFormatter::format, the loop over the entries once the list is broken
RECURSIVE format_loop(_, _, _, _, _, _, _, _)
format_loop(buffer, obj, strings, delimiter, i, col, o, current_col) ==
    IF i > Len(obj) THEN Cursor(buffer, current_col)
    ELSE LET c1 == current_col + Len(strings[i]) + 1
             key == obj[i].k \o <<"=">>
             next(step) ==
                 format_loop(IF i < Len(obj) THEN indent(step.buf \o delimiter, col) ELSE step.buf,
                             obj, strings, delimiter, i + 1, col, o, step.col)
         IN  next(IF c1 > o.max_col
                  THEN dfs(buffer \o key, obj[i].v, col + Len(key), 0, o)
                  ELSE Cursor(buffer \o strings[i], c1))

\* ParamFormatter::format
format(inputs, delimiter, buffer, col, o) ==
    IF IsObj(inputs)
    THEN LET strings == param_strings(inputs.v)
             fitted(candidate) ==
                 IF needs_wrap(col, candidate, o)
                 THEN format_loop(buffer, inputs.v, strings, delimiter, 1, col, o, col)
                 ELSE Cursor(buffer \o candidate, col + Len(candidate))
         IN  fitted(Join(strings, delimiter))
    ELSE Cursor(buffer, col)


\* filter_map(|v| v.as_str()) over the items of an array
RECURSIVE StrItems(_)
StrItems(items) ==
    IF items = <<>> THEN <<>>
    ELSE IF IsStr(Head(items)) THEN <<Head(items).v>> \o StrItems(Tail(items))
    ELSE StrItems(Tail(items))

\* The whole name, dots and all
WholeName(s) == s

\* s.split('.').last(): what follows the last '.'
RECURSIVE LastSegment(_)
LastSegment(s) ==
    IF \E i \in 1..Len(s) : s[i] = "."
    THEN LastSegment(SubSeq(s, (CHOOSE i \in 1..Len(s) : s[i] = ".") + 1, Len(s)))
    ELSE s

\* NodeDecompiler::indent_list, the loop once the list is broken
RECURSIVE indent_list_loop(_, _, _, _, _, _)
indent_list_loop(buffer, inputs, delimiter, i, o, current_col) ==
    IF i > Len(inputs) THEN Cursor(buffer, current_col)
    ELSE LET c1 == current_col + o.indent * 2 + Len(inputs[i]) + 1
             b1 == IF c1 > o.max_col THEN indent(buffer, o.indent * 2) ELSE buffer
             c2 == IF c1 > o.max_col THEN o.indent * 2 ELSE c1
             b2 == b1 \o inputs[i]
         IN  indent_list_loop(IF i < Len(inputs) THEN b2 \o delimiter ELSE b2,
                              inputs, delimiter, i + 1, o, c2)

\* NodeDecompiler::indent_list
indent_list(inputs, col, delimiter, buffer, o) ==
    LET candidate == Join(inputs, delimiter)
    IN  IF needs_wrap(col, candidate, o)
        THEN indent_list_loop(buffer, inputs, delimiter, 1, o, col)
        ELSE Cursor(buffer \o candidate, col + Len(candidate))

\* NodeDecompiler::str_input
str_input(data) == data

\* NodeDecompiler::indent_inputs, the loop once the list is broken
RECURSIVE indent_inputs_loop(_, _, _, _, _, _)
indent_inputs_loop(buffer, inputs, delimiter, i, o, current_col) ==
    IF i > Len(inputs) THEN Cursor(buffer, current_col)
    ELSE LET c1 == current_col + o.indent * 2 + Len(inputs[i]) + 1
             b1 == IF c1 > o.max_col THEN indent(buffer, o.indent * 2) ELSE buffer
             c2 == IF c1 > o.max_col THEN o.indent * 2 ELSE c1
             b2 == b1 \o str_input(inputs[i])
         IN  indent_inputs_loop(IF i < Len(inputs) THEN b2 \o delimiter ELSE b2,
                                inputs, delimiter, i + 1, o, c2)

\* NodeDecompiler::indent_inputs
indent_inputs(inputs, col, delimiter, buffer, o) ==
    LET candidate == Join([i \in 1..Len(inputs) |-> str_input(inputs[i])], delimiter)
    IN  IF needs_wrap(col, candidate, o)
        THEN indent_inputs_loop(buffer, inputs, delimiter, 1, o, col)
        ELSE Cursor(buffer \o candidate, col + Len(candidate))

\* NodeDecompiler::indent_str
indent_str(buffer, input, col, o) ==
    IF needs_wrap(col, input, o)
    THEN Cursor(indent(buffer, o.indent * 2) \o input, o.indent * 2 + Len(input))
    ELSE Cursor(buffer \o input, col + Len(input))

\* Helper function to format input strings
input_str(inputs) ==
    IF IsArr(inputs)
    THEN IF Len(inputs.v) = 1 THEN ToJson(inputs.v[1])
         ELSE <<"(">> \o Join([i \in 1..Len(inputs.v) |-> ToJson(inputs.v[i])], <<",">>) \o <<")">>
    ELSE ToJson(inputs)

\* node_block_from_value: "ref(" and the checked name, or the error
node_name(node, buffer, node_as) ==
    LET ref_graph == GetStr(node, <<"r", "e", "f", "_", "g", "r", "a", "p", "h">>)
        op_name == GetStr(node, <<"o", "p", "_", "n", "a", "m", "e">>)
    IN  IF IsSome(ref_graph)
        THEN IF check_id(ref_graph.val).ok
             THEN Ok(buffer \o <<"r", "e", "f", "(">> \o ref_graph.val \o <<"(">>)
             ELSE check_id(ref_graph.val)
        ELSE IF IsSome(op_name)
             THEN IF check_id(op_name.val).ok
                  THEN Ok(buffer \o op_name.val \o <<"(">>)
                  ELSE check_id(op_name.val)
             ELSE Err(Message("Node {} has no op_name or ref_graph", node_as))

\* node_block_from_value: the inputs, positional (array) or key=value (object)
node_inputs(node, buffer, o) ==
    LET inputs == Get(node, <<"i", "n", "p", "u", "t">>)
    IN  IF IsNone(inputs) THEN buffer
        ELSE IF IsArr(inputs.val)
             THEN indent_inputs(StrItems(inputs.val.v), o.indent * 2, <<",">>, buffer, o).buf
        ELSE IF IsObj(inputs.val)
             THEN indent_inputs([i \in 1..Len(inputs.val.v) |->
                                    inputs.val.v[i].k \o <<"=">> \o input_str(inputs.val.v[i].v)],
                                o.indent * 2, <<",">>, buffer, o).buf
        ELSE buffer

\* node_block_from_value: the closing parentheses
node_close(node, buffer) ==
    IF IsSome(Get(node, <<"r", "e", "f", "_", "g", "r", "a", "p", "h">>)) THEN buffer \o <<")", ")">> ELSE buffer \o <<")">>

\* node_block_from_value: the literal `attrs` entries, {key, value} objects of strings
RECURSIVE node_attrs(_, _, _)
node_attrs(attrs, buffer, o) ==
    IF attrs = <<>> THEN buffer
    ELSE LET attr == Head(attrs)
         IN  IF IsSome(GetStr(attr, <<"k", "e", "y">>)) /\ IsSome(GetStr(attr, <<"v", "a", "l", "u", "e">>))
             THEN node_attrs(Tail(attrs),
                      indent_str(buffer,
                                 <<".">> \o GetStr(attr, <<"k", "e", "y">>).val \o <<"(">>
                                     \o GetStr(attr, <<"v", "a", "l", "u", "e">>).val \o <<")">>,
                                 0, o).buf,
                      o)
             ELSE node_attrs(Tail(attrs), buffer, o)

\* node_block_from_value: .version('v')
node_version(node, buffer, o) ==
    IF IsSome(GetStr(node, <<"v", "e", "r", "s", "i", "o", "n">>))
    THEN indent_str(buffer, <<".", "v", "e", "r", "s", "i", "o", "n", "(", "'">> \o GetStr(node, <<"v", "e", "r", "s", "i", "o", "n">>).val \o <<"'", ")">>, 0, o).buf
    ELSE buffer

\* node_block_from_value: .as(start) / .as(end)
node_markers(node, buffer, o) ==
    LET end(b1) == IF IsSome(Get(node, <<"e", "n", "d">>))
                   THEN indent_str(b1, <<".", "a", "s", "(", "e", "n", "d", ")">>, 0, o).buf ELSE b1
    IN  end(IF IsSome(Get(node, <<"s", "t", "a", "r", "t">>))
            THEN indent_str(buffer, <<".", "a", "s", "(", "s", "t", "a", "r", "t", ")">>, 0, o).buf ELSE buffer)

\* node_block_from_value: .depend(a,b,...)
node_depend(node, buffer, o) ==
    IF IsSome(GetArr(node, <<"d", "e", "p", "e", "n", "d">>))
    THEN indent_str(buffer,
                    <<".", "d", "e", "p", "e", "n", "d", "(">> \o Join(StrItems(GetArr(node, <<"d", "e", "p", "e", "n", "d">>).val), <<",">>) \o <<")">>,
                    0, o).buf
    ELSE buffer

\* node_block_from_value: .override(value)
node_override(node, buffer, o) ==
    LET override_val == Get(node, <<"o", "v", "e", "r", "r", "i", "d", "e">>)
    IN  IF IsSome(override_val)
        THEN indent_str(buffer,
                        <<".", "o", "v", "e", "r", "r", "i", "d", "e", "(">>
                            \o (CASE override_val.val.t = "bool" ->
                                        IF override_val.val.v THEN <<"t", "r", "u", "e">> ELSE <<"f", "a", "l", "s", "e">>
                                  [] override_val.val.t = "null" -> <<>>
                                  [] OTHER -> ToJson(override_val.val))
                            \o <<")">>,
                        0, o).buf
        ELSE buffer

\* The list-style parameters in the order of their keys
param_map_by_key == <<<<"f", "u", "n", "n", "e", "l">>, <<"l", "o", "g">>, <<"m", "e", "t", "r", "i", "c", "s">>, <<"p", "r", "o", "p", "e", "r", "t", "y">>, <<"w", "i", "t", "h">>>>

\* node_block_from_value: the list-style parameters, in this order
param_map == <<<<"p", "r", "o", "p", "e", "r", "t", "y">>, <<"w", "i", "t", "h">>, <<"l", "o", "g">>, <<"m", "e", "t", "r", "i", "c", "s">>, <<"f", "u", "n", "n", "e", "l">>>>

RECURSIVE node_params(_, _, _, _)
node_params(node, i, buffer, o) ==
    IF i > Len(param_map) THEN buffer
    ELSE LET prefix == param_map[i]
             value == Get(node, prefix)
             indent_ == o.indent * 2
         IN  IF IsSome(value)
             THEN node_params(node, i + 1,
                      format(value.val, <<",">>,
                             indent(buffer, indent_) \o <<".">> \o prefix \o <<"(">>,
                             indent_ + Len(prefix) + 1, o).buf \o <<")">>,
                      o)
             ELSE node_params(node, i + 1, buffer, o)

\* NodeDecompiler::node_block_from_value
node_block_from_value(node, buffer, has_as, node_as, o) ==
    LET attrs(b1) == IF IsSome(GetArr(node, <<"a", "t", "t", "r", "s">>))
                     THEN node_attrs(GetArr(node, <<"a", "t", "t", "r", "s">>).val, b1, o) ELSE b1
        alias(b3) == IF has_as
                     THEN indent_str(b3, <<".", "a", "s", "(">> \o node_as \o <<")">>, 0, o).buf
                     ELSE b3
        rest(b3) ==
            IF has_as /\ ~check_id(node_as).ok THEN check_id(node_as)
            ELSE Ok(node_params(node, 1,
                        node_override(node,
                            node_depend(node, node_markers(node, alias(b3), o), o), o),
                        o))
        after(named) ==
            IF ~named.ok THEN named
            ELSE rest(node_version(node,
                          attrs(node_close(node, node_inputs(node, named.val, o))), o))
    IN  after(node_name(node, buffer, node_as))

\* NodeDecompiler::node_block
node_block(node, buffer, has_as, node_as, o) ==
    node_block_from_value(node, buffer, has_as, node_as, o)

\* The outputs of a for loop joined without the space
for_outputs_tight(for_outputs) ==
    IF IsSome(for_outputs)
    THEN IF IsArr(for_outputs.val) THEN Join(StrItems(for_outputs.val.v), <<",">>)
         ELSE IF IsStr(for_outputs.val) THEN for_outputs.val.v
         ELSE <<>>
    ELSE <<>>

\* The outputs of a for loop as text (NodeDecompiler::for_loop)
for_outputs_str(for_outputs) ==
    IF IsSome(for_outputs)
    THEN IF IsArr(for_outputs.val) THEN Join(StrItems(for_outputs.val.v), <<",", " ">>)
         ELSE IF IsStr(for_outputs.val) THEN for_outputs.val.v
         ELSE <<>>
    ELSE <<>>

\* NodeDecompiler::for_loop, after `self.node_block(buffer, true)?`
for_loop_tail(block, fl, o) ==
    IF ~block.ok THEN block
    ELSE LET for_inputs == IF IsSome(GetStr(fl, <<"i", "n", "p", "u", "t", "s">>)) THEN GetStr(fl, <<"i", "n", "p", "u", "t", "s">>).val ELSE <<>>
             indent_ == o.indent * 2
             condition(b1) == IF IsSome(GetStr(fl, <<"c", "o", "n", "d", "i", "t", "i", "o", "n">>))
                              THEN indent(b1, indent_) \o <<"i", "f", " ">> \o GetStr(fl, <<"c", "o", "n", "d", "i", "t", "i", "o", "n">>).val
                              ELSE b1
         IN  Ok(condition(indent(block.val, indent_)
                              \o <<"f", "o", "r", " ">> \o for_outputs_str(Get(fl, <<"o", "u", "t", "p", "u", "t", "s">>))
                              \o <<" ", "i", "n", " ">> \o for_inputs)
                \o <<"]", ";">>)

\* NodeDecompiler::for_loop
for_loop(node, for_loop_obj, buffer, node_as, o) ==
    for_loop_tail(node_block(node, buffer \o <<"[">>, TRUE, node_as, o), VObj(for_loop_obj), o)

\* `block?; buffer.push(';')`
terminated(block) == IF block.ok THEN Ok(block.val \o <<";">>) ELSE block

\* The false branch rendered as an aliased node call
condition_false_aliased(t, node, node_as, o) ==
    IF ~t.ok THEN t
    ELSE IF IsNone(Get(node, <<"f", "a", "l", "s", "e", "_", "b", "r", "a", "n", "c", "h">>))
    THEN Err(Message("Condition node {} must have false branch", node_as))
    ELSE terminated(node_block_from_value(Get(node, <<"f", "a", "l", "s", "e", "_", "b", "r", "a", "n", "c", "h">>).val,
                                          t.val \o <<" ", ":", " ">>, TRUE, node_as, o))

\* NodeDecompiler::condition_node, after the true branch
condition_false(t, node, node_as, o) ==
    IF ~t.ok THEN t
    ELSE IF IsNone(Get(node, <<"f", "a", "l", "s", "e", "_", "b", "r", "a", "n", "c", "h">>))
    THEN Err(Message("Condition node {} must have false branch", node_as))
    ELSE terminated(node_block_from_value(Get(node, <<"f", "a", "l", "s", "e", "_", "b", "r", "a", "n", "c", "h">>).val,
                                          t.val \o <<" ", ":", " ">>, FALSE, node_as, o))

\* NodeDecompiler::condition_node
condition_node(node, buffer, node_as, o) ==
    IF IsNone(GetStr(node, <<"c", "o", "n", "d", "i", "t", "i", "o", "n">>))
    THEN Err(Message("Condition node {} must have string condition", node_as))
    ELSE IF IsNone(Get(node, <<"t", "r", "u", "e", "_", "b", "r", "a", "n", "c", "h">>))
    THEN Err(Message("Condition node {} must have true branch", node_as))
    ELSE condition_false(
             node_block_from_value(Get(node, <<"t", "r", "u", "e", "_", "b", "r", "a", "n", "c", "h">>).val,
                                   buffer \o GetStr(node, <<"c", "o", "n", "d", "i", "t", "i", "o", "n">>).val \o <<" ", "?", " ">>,
                                   FALSE, node_as, o),
             node, node_as, o)

\* The shapes with the conditional tested before the for loop
node_shape_condition_first(node) ==
    LET fl == GetObj(node, <<"f", "o", "r", "_", "l", "o", "o", "p">>)
    IN  IF GetStr(node, <<"o", "p", "_", "n", "a", "m", "e">>) = Some(<<"b", "u", "i", "l", "t", "i", "n", ".", "c", "o", "n", "d", "i", "t", "i", "o", "n", "s", ".", "s", "t", "r">>)
        THEN "condition"
        ELSE IF /\ IsSome(fl)
                /\ fl.val # <<>>
                /\ MapHas(fl.val, <<"i", "n", "p", "u", "t", "s">>)
                /\ MapHas(fl.val, <<"o", "u", "t", "p", "u", "t", "s">>)
             THEN "for_loop"
             ELSE "node_block"

\* The shape NodeDecompiler::decompile renders a node in
node_shape(node) ==
    LET fl == GetObj(node, <<"f", "o", "r", "_", "l", "o", "o", "p">>)
    IN  IF /\ IsSome(fl)
           /\ fl.val # <<>>
           /\ MapHas(fl.val, <<"i", "n", "p", "u", "t", "s">>)
           /\ MapHas(fl.val, <<"o", "u", "t", "p", "u", "t", "s">>)
        THEN "for_loop"
        ELSE IF GetStr(node, <<"o", "p", "_", "n", "a", "m", "e">>) = Some(<<"b", "u", "i", "l", "t", "i", "n", ".", "c", "o", "n", "d", "i", "t", "i", "o", "n", "s", ".", "s", "t", "r">>)
             THEN "condition"
             ELSE "node_block"

\* NodeDecompiler::decompile, the left-hand side: the outputs and " = "
node_outputs(node_as, outputs, buffer, o) ==
    LET output_key == Join(StrItems(outputs), <<",">>)
        has_as == output_key # node_as
    IN  IF has_as
        THEN indent_list([i \in 1..Len(StrItems(outputs)) |-> LastSegment(StrItems(outputs)[i])],
                         o.indent, <<",">>, buffer, o).buf \o <<" ", "=", " ">>
        ELSE buffer \o output_key \o <<" ", "=", " ">>

\* NodeDecompiler::decompile, the right-hand side in the node's shape
node_body(node_as, node, has_as, b1, o) ==
    CASE node_shape(node) = "for_loop" ->
            for_loop(node, GetObj(node, <<"f", "o", "r", "_", "l", "o", "o", "p">>).val, b1, node_as, o)
      [] node_shape(node) = "condition" -> condition_node(node, b1, node_as, o)
      [] OTHER -> terminated(node_block(node, b1, has_as, node_as, o))

\* NodeDecompiler::decompile
node_decompile(node_as, node, buffer, o) ==
    IF IsNone(GetArr(node, <<"o", "u", "t", "p", "u", "t">>))
    THEN Err(Message("Node {} has no output", node_as))
    ELSE node_body(node_as, node,
                   Join(StrItems(GetArr(node, <<"o", "u", "t", "p", "u", "t">>).val), <<",">>) # node_as,
                   node_outputs(node_as, GetArr(node, <<"o", "u", "t", "p", "u", "t">>).val, indent(buffer, o.indent), o),
                   o)

RECURSIVE decompile_nodes(_, _, _, _)

\* The loop over the nodes goes on unless the node failed (`?`)
nodes_rest(r, nodes_obj, i, o) ==
    IF ~r.ok THEN r ELSE decompile_nodes(nodes_obj, i + 1, r.val, o)

\* The nodes of a map, each through NodeDecompiler::decompile, in iteration order
decompile_nodes(nodes_obj, i, buffer, o) ==
    IF i > Len(nodes_obj) THEN Ok(buffer)
    ELSE nodes_rest(node_decompile(nodes_obj[i].k, nodes_obj[i].v, buffer, o), nodes_obj, i, o)


\* decompile_graph: the header
graph_header(graph, buffer) ==
    LET tpl == GetStr(graph, <<"t", "e", "m", "p", "l", "a", "t", "e", "_", "g", "r", "a", "p", "h">>)
        tpl_version == GetStr(graph, <<"t", "e", "m", "p", "l", "a", "t", "e", "_", "v", "e", "r", "s", "i", "o", "n">>)
    IN  IF IsSome(tpl)
        THEN IF ~check_id(tpl.val).ok THEN check_id(tpl.val)
             ELSE Ok(buffer \o <<"g", "r", "a", "p", "h", " ", ":", " ">> \o tpl.val
                        \o (IF IsSome(tpl_version)
                            THEN <<".", "v", "e", "r", "s", "i", "o", "n", "(", "'">> \o check_version(tpl_version.val).val \o <<"'", ")">>
                            ELSE <<>>)
                        \o <<" ", "{">>)
        ELSE Ok(buffer \o <<"g", "r", "a", "p", "h", " ", "{">>)

\* decompile_graph: the properties line
graph_properties(graph, buffer, o) ==
    IF IsSome(Get(graph, <<"p", "r", "o", "p", "e", "r", "t", "y">>))
    THEN format(Get(graph, <<"p", "r", "o", "p", "e", "r", "t", "y">>).val, <<",">>, indent(buffer, o.indent), o.indent, o).buf
            \o <<";">>
    ELSE buffer

\* A footer that leaves the alias out
graph_footer_bare(graph, buffer, o) ==
    Ok((IF o.indent > 0 THEN buffer \o <<"\n">> ELSE buffer) \o <<"}", ";">>)

\* decompile_graph: the footer, "}" and the alias and version
graph_footer(graph, buffer, o) ==
    LET b1 == (IF o.indent > 0 THEN buffer \o <<"\n">> ELSE buffer) \o <<"}">>
        graph_as == GetStr(graph, <<"a", "s">>)
        graph_version == GetStr(graph, <<"v", "e", "r", "s", "i", "o", "n">>)
    IN  IF IsSome(graph_as)
        THEN IF ~check_id(graph_as.val).ok THEN check_id(graph_as.val)
             ELSE Ok(b1 \o <<" ", "a", "s", " ">> \o graph_as.val
                        \o (IF IsSome(graph_version)
                            THEN <<".", "v", "e", "r", "s", "i", "o", "n", "(", "'">> \o check_version(graph_version.val).val \o <<"'", ")">>
                            ELSE <<>>)
                        \o <<";">>)
        ELSE Ok(b1 \o <<";">>)

\* decompile_graph: the nodes
graph_nodes(graph, buffer, o) ==
    IF IsSome(GetObj(graph, <<"n", "o", "d", "e", "s">>))
    THEN decompile_nodes(GetObj(graph, <<"n", "o", "d", "e", "s">>).val, 1, buffer, o)
    ELSE Ok(buffer)

\* decompile_graph, after the header
graph_body(header, graph, o) ==
    IF ~header.ok THEN header
    ELSE graph_nodes(graph, graph_properties(graph, header.val, o), o)

\* decompile_graph, after the nodes
graph_end(nodes, graph, o) ==
    IF ~nodes.ok THEN nodes ELSE graph_footer(graph, nodes.val, o)

\* Decompile a single graph
decompile_graph(buffer, graph, o) ==
    IF ~IsObj(graph) THEN Err(Message("Graph must be a JSON object", <<>>))
    ELSE graph_end(graph_body(graph_header(graph, buffer), graph, o), graph, o)

\* Value::as_i64 of a field
GetInt(x, key) ==
    IF IsSome(Get(x, key)) /\ Get(x, key).val.t = "num" THEN Some(Get(x, key).val.v) ELSE None

\* Format length/range specification
op_length_range_format(inputs) ==
    IF IsSome(GetInt(inputs, <<"e", "q">>)) THEN IntToString(GetInt(inputs, <<"e", "q">>).val)
    ELSE (IF IsSome(GetInt(inputs, <<"g", "e">>)) THEN <<"[">> \o IntToString(GetInt(inputs, <<"g", "e">>).val)
          ELSE IF IsSome(GetInt(inputs, <<"g", "t">>))
               THEN <<"(">> \o IntToString(GetInt(inputs, <<"g", "t">>).val)
          ELSE <<"[">>)
         \o <<",">>
         \o (IF IsSome(GetInt(inputs, <<"l", "e">>)) THEN IntToString(GetInt(inputs, <<"l", "e">>).val) \o <<"]">>
             ELSE IF IsSome(GetInt(inputs, <<"l", "t">>))
                  THEN IntToString(GetInt(inputs, <<"l", "t">>).val) \o <<")">>
             ELSE <<"]">>)

\* v.as_str().unwrap_or(&v.to_string())
StrOrJson(v) == IF IsStr(v) THEN v.v ELSE ToJson(v)

\* op_spec_format: the rendering of one item of a spec
op_spec_value(k, v) ==
    CASE k = <<"d", "t", "y", "p", "e">> -> StrOrJson(v)
      [] k \in {<<"l", "e", "n", "g", "t", "h">>, <<"r", "a", "n", "g", "e">>} -> op_length_range_format(v)
      [] k = <<"c", "h", "o", "i", "c", "e">> ->
            IF IsArr(v)
            THEN <<"(">>
                 \o Join([i \in 1..Len(v.v) |-> <<"'">> \o StrOrJson(v.v[i]) \o <<"'">>], <<",">>)
                 \o <<")">>
            ELSE <<"'">> \o StrOrJson(v) \o <<"'">>
      [] OTHER -> <<"'">> \o StrOrJson(v) \o <<"'">>

\* Format operation specification
RECURSIVE op_spec_format(_, _, _, _, _)
op_spec_format(inputs, i, buffer, col, o) ==
    IF i > Len(inputs) THEN buffer
    ELSE LET spec == inputs[i].v
             items == IF IsObj(spec)
                      THEN Join([j \in 1..Len(spec.v) |->
                                    spec.v[j].k \o <<"=">> \o op_spec_value(spec.v[j].k, spec.v[j].v)],
                                <<",">>)
                      ELSE <<>>
             next(b1) == op_spec_format(inputs, i + 1,
                             IF i < Len(inputs) /\ o.indent > 0 THEN indent(b1, col) ELSE b1,
                             col, o)
         IN  next(buffer \o inputs[i].k \o <<":", "(">> \o items \o <<")", ";">>)

\* decompile_op: the closing "};" of a section, on a line of its own when indenting
section_close(buffer, o) ==
    (IF o.indent > 0 THEN buffer \o <<"\n">> \o Spaces(o.indent) ELSE buffer) \o <<"}", ";">>

\* serde_json::Map::remove: the entries without the key
MapRemove(entries, key) ==
    LET keep == {i \in 1..Len(entries) : entries[i].k # key}
        RECURSIVE pick(_)
        pick(i) == IF i > Len(entries) THEN <<>>
                   ELSE IF i \in keep THEN <<entries[i]>> \o pick(i + 1)
                   ELSE pick(i + 1)
    IN  pick(1)

\* decompile_op: the meta section (metas without `as` and `version`)
op_meta(op, buffer, o) ==
    LET metas == IF IsSome(GetObj(op, <<"m", "e", "t", "a", "s">>)) THEN GetObj(op, <<"m", "e", "t", "a", "s">>).val ELSE <<>>
        copy_meta == MapRemove(MapRemove(metas, <<"a", "s">>), <<"v", "e", "r", "s", "i", "o", "n">>)
    IN  IF copy_meta # <<>>
        THEN section_close(format(VObj(copy_meta), <<",">>,
                                  indent(buffer, o.indent) \o <<"m", "e", "t", "a", " ", "{">>, o.indent * 2, o).buf,
                           o)
        ELSE buffer

\* decompile_op: an input / output / config section
op_section(op, key, title, buffer, o) ==
    IF IsSome(GetObj(op, key))
    THEN section_close(op_spec_format(GetObj(op, key).val, 1,
                                      indent(buffer, o.indent) \o title, o.indent * 2, o),
                       o)
    ELSE buffer

\* A footer that renders the alias taken from metas without validating it
op_footer_unchecked(op, buffer, o) ==
    LET metas == VObj(IF IsSome(GetObj(op, <<"m", "e", "t", "a", "s">>)) THEN GetObj(op, <<"m", "e", "t", "a", "s">>).val ELSE <<>>)
        op_as == GetStr(metas, <<"a", "s">>)
        b1 == (IF o.indent > 0 THEN buffer \o <<"\n">> ELSE buffer) \o <<"}">>
    IN  Ok(b1 \o (IF IsSome(op_as) THEN <<" ", "a", "s", " ">> \o op_as.val ELSE <<>>) \o <<";">>)

\* decompile_op: the footer, "}" and the alias and version taken from metas
op_footer(op, buffer, o) ==
    LET metas == VObj(IF IsSome(GetObj(op, <<"m", "e", "t", "a", "s">>)) THEN GetObj(op, <<"m", "e", "t", "a", "s">>).val ELSE <<>>)
        op_as == GetStr(metas, <<"a", "s">>)
        op_version == GetStr(metas, <<"v", "e", "r", "s", "i", "o", "n">>)
        b1 == (IF o.indent > 0 THEN buffer \o <<"\n">> ELSE buffer) \o <<"}">>
    IN  IF IsSome(op_as)
        THEN IF ~check_id(op_as.val).ok THEN check_id(op_as.val)
             ELSE Ok(b1 \o <<" ", "a", "s", " ">> \o op_as.val
                        \o (IF IsSome(op_version)
                            THEN <<".", "v", "e", "r", "s", "i", "o", "n", "(", "'">> \o check_version(op_version.val).val \o <<"'", ")">>
                            ELSE <<>>)
                        \o <<";">>)
        ELSE Ok(b1 \o <<";">>)

\* decompile_op: the nested graph
op_graph(op, buffer, o) ==
    IF IsSome(Get(op, <<"g", "r", "a", "p", "h">>))
    THEN decompile_graph(buffer, Get(op, <<"g", "r", "a", "p", "h">>).val, o) ELSE Ok(buffer)

\* decompile_op, after the nested graph
op_end(g, op, o) == IF ~g.ok THEN g ELSE op_footer(op, g.val, o)

\* Decompile an operation definition
decompile_op(buffer, op, o) ==
    IF ~IsObj(op) THEN Err(Message("Operation must be a JSON object", <<>>))
    ELSE op_end(op_graph(op,
                    op_section(op, <<"c", "o", "n", "f", "i", "g", "s">>, <<"c", "o", "n", "f", "i", "g", " ", "{">>,
                        op_section(op, <<"o", "u", "t", "p", "u", "t", "s">>, <<"o", "u", "t", "p", "u", "t", " ", "{">>,
                            op_section(op, <<"i", "n", "p", "u", "t", "s">>, <<"i", "n", "p", "u", "t", " ", "{">>,
                                op_meta(op, buffer \o <<"o", "p", " ", "{">>, o), o), o), o),
                    o),
                op, o)

RECURSIVE decompile_graphs(_, _, _, _)
RECURSIVE decompile_ops(_, _, _, _)

\* The blank line between two items of a list, none after the last
separated(r, i, n) ==
    IF r.ok /\ i < n THEN Ok(r.val \o <<"\n", "\n">>) ELSE r

\* The loop over the graphs goes on unless the graph failed (`?`)
graphs_rest(r, graphs_array, i, o) ==
    IF ~r.ok THEN r ELSE decompile_graphs(graphs_array, i + 1, r.val, o)

\* decompile_std: the graphs, blank-line separated
decompile_graphs(graphs_array, i, buffer, o) ==
    IF i > Len(graphs_array) THEN Ok(buffer)
    ELSE graphs_rest(separated(decompile_graph(buffer, graphs_array[i], o), i, Len(graphs_array)),
                     graphs_array, i, o)

\* The loop over the operations goes on unless the operation failed (`?`)
ops_rest(r, ops_array, i, o) ==
    IF ~r.ok THEN r ELSE decompile_ops(ops_array, i + 1, r.val, o)

\* decompile_std: the operations, blank-line separated
decompile_ops(ops_array, i, buffer, o) ==
    IF i > Len(ops_array) THEN Ok(buffer)
    ELSE ops_rest(separated(decompile_op(buffer, ops_array[i], o), i, Len(ops_array)),
                  ops_array, i, o)

\* decompile_std: the graphs
std_graphs(std_data, o) ==
    IF IsSome(Get(std_data, <<"g", "r", "a", "p", "h", "s">>))
    THEN IF IsSome(GetArr(std_data, <<"g", "r", "a", "p", "h", "s">>))
         THEN decompile_graphs(GetArr(std_data, <<"g", "r", "a", "p", "h", "s">>).val, 1, <<>>, o)
         ELSE Err(Message("Graphs must be an array", <<>>))
    ELSE Ok(<<>>)

\* decompile_std: the operations, after the graphs
std_ops(gs, std_data, o) ==
    IF ~gs.ok THEN gs
    ELSE IF IsSome(GetArr(std_data, <<"o", "p", "s">>))
    THEN decompile_ops(GetArr(std_data, <<"o", "p", "s">>).val, 1, gs.val, o)
    ELSE gs

\* decompile_std: the nodes, after the operations
std_nodes(os, std_data, o) ==
    IF ~os.ok THEN os
    ELSE IF IsSome(GetObj(std_data, <<"n", "o", "d", "e", "s">>))
    THEN decompile_nodes(GetObj(std_data, <<"n", "o", "d", "e", "s">>).val, 1, os.val, o)
    ELSE os

\* The three sections rendered from whatever the root is
decompile_std_any_root(std_data, o) ==
    std_nodes(std_ops(std_graphs(std_data, o), std_data, o), std_data, o)

\* Main decompilation function for standard JSON format
decompile_std(std_data, o) ==
    IF ~IsObj(std_data) THEN Err(Message("Decompile input must be a JSON object", <<>>))
    ELSE std_nodes(std_ops(std_graphs(std_data, o), std_data, o), std_data, o)

\* Decompile from JSON data: the text, or the error; `o` is what the call stored
\* in the thread-local OPTIONS, which every helper reads back
decompile_from_data(content, o) ==
    decompile_std(IF o.unescape THEN unescape_dfs(content) ELSE content, o)


-----------------------------------------------------------------------------
(* Serialisation of the compiler's result (the serde derives of            *)
(* compiler.rs): a None field is skipped, `alias` is written as "as", every *)
(* other field under its own name; serde_json::to_value keeps the entries  *)
(* of a map sorted by key.                                                 *)

\* The entries of a HashMap, sorted by key
RECURSIVE HashEntries(_, _)
HashEntries(m, keys) ==
    IF keys = {} THEN <<>>
    ELSE LET first == CHOOSE k \in keys : \A k2 \in keys \ {k} : StrLess(k, k2)
         IN  <<Entry(first, m[first])>> \o HashEntries(m, keys \ {first})

PutOpt(entries, key, o) == IF IsSome(o) THEN MapInsert(entries, key, o.val) ELSE entries

OptStr(o) == IF IsSome(o) THEN Some(VStr(o.val)) ELSE None
OptBool(o) == IF IsSome(o) THEN Some(VBool(o.val)) ELSE None
OptStrs(o) == IF IsSome(o) THEN Some(VArr([i \in 1..Len(o.val) |-> VStr(o.val[i])])) ELSE None
OptValues(o) == IF IsSome(o) THEN Some(VObj(HashEntries(o.val, DOMAIN o.val))) ELSE None

\* #[derive(Serialize)] struct NodeDict
ser_NodeDict(n) ==
    VObj(PutOpt(PutOpt(PutOpt(PutOpt(PutOpt(PutOpt(PutOpt(PutOpt(PutOpt(PutOpt(PutOpt(<<>>,
        <<"o", "p", "_", "n", "a", "m", "e">>, OptStr(n.op_name)),
        <<"r", "e", "f", "_", "g", "r", "a", "p", "h">>, OptStr(n.ref_graph)),
        <<"v", "e", "r", "s", "i", "o", "n">>, OptStr(n.version)),
        <<"o", "u", "t", "p", "u", "t", "s">>, OptStrs(n.outputs)),
        <<"i", "n", "p", "u", "t", "s">>, OptStrs(n.inputs)),
        <<"d", "e", "p", "e", "n", "d", "s">>, OptStrs(n.depends)),
        <<"w", "i", "t", "h">>, OptValues(n.with)),
        <<"p", "r", "o", "p", "e", "r", "t", "i", "e", "s">>, OptValues(n.properties)),
        <<"a", "s">>, OptStr(n.alias)),
        <<"o", "v", "e", "r", "r", "i", "d", "e", "_", "f", "l", "a", "g">>, OptBool(n.override_flag)),
        <<"f", "o", "r", "_", "l", "o", "o", "p">>, OptValues(n.for_loop)))

\* #[derive(Serialize)] struct GraphDict
ser_GraphDict(g) ==
    VObj(PutOpt(PutOpt(PutOpt(PutOpt(PutOpt(PutOpt(<<>>,
        <<"p", "r", "o", "p", "e", "r", "t", "i", "e", "s">>, OptValues(g.properties)),
        <<"n", "o", "d", "e", "s">>, IF IsSome(g.nodes)
                   THEN Some(VObj(HashEntries([k \in DOMAIN g.nodes.val |->
                                                   ser_NodeDict(g.nodes.val[k])],
                                              DOMAIN g.nodes.val)))
                   ELSE None),
        <<"a", "s">>, OptStr(g.alias)),
        <<"v", "e", "r", "s", "i", "o", "n">>, OptStr(g.version)),
        <<"t", "e", "m", "p", "l", "a", "t", "e", "_", "g", "r", "a", "p", "h">>, OptStr(g.template_graph)),
        <<"t", "e", "m", "p", "l", "a", "t", "e", "_", "v", "e", "r", "s", "i", "o", "n">>, OptStr(g.template_version)))

\* Option<HashMap<String, HashMap<String, Value>>>
OptSpecs(o) ==
    IF IsSome(o)
    THEN Some(VObj(HashEntries([k \in DOMAIN o.val |->
                                   VObj(HashEntries(o.val[k], DOMAIN o.val[k]))],
                               DOMAIN o.val)))
    ELSE None

\* #[derive(Serialize)] struct OpDict
ser_OpDict(op) ==
    VObj(PutOpt(PutOpt(PutOpt(PutOpt(PutOpt(<<>>,
        <<"m", "e", "t", "a", "s">>, OptValues(op.metas)),
        <<"i", "n", "p", "u", "t", "s">>, OptSpecs(op.inputs)),
        <<"o", "u", "t", "p", "u", "t", "s">>, OptSpecs(op.outputs)),
        <<"c", "o", "n", "f", "i", "g", "s">>, OptSpecs(op.configs)),
        <<"g", "r", "a", "p", "h">>, IF IsSome(op.graph) THEN Some(ser_GraphDict(op.graph.val)) ELSE None))

\* #[derive(Serialize)] struct CompileResult
ser_CompileResult(r) ==
    VObj(PutOpt(PutOpt(PutOpt(PutOpt(PutOpt(PutOpt(<<>>,
        <<"g", "r", "a", "p", "h", "s">>, IF IsSome(r.graphs)
                    THEN Some(VArr([i \in 1..Len(r.graphs.val) |-> ser_GraphDict(r.graphs.val[i])]))
                    ELSE None),
        <<"o", "p", "s">>, IF IsSome(r.ops)
                 THEN Some(VArr([i \in 1..Len(r.ops.val) |-> ser_OpDict(r.ops.val[i])]))
                 ELSE None),
        <<"v", "a", "r", "s">>, OptValues(r.vars)),
        <<"g", "o", "s", "_", "v", "e", "r", "s", "i", "o", "n">>, Some(VStr(r.gos_version))),
        <<"o", "p", "_", "n", "a", "m", "e", "s">>, OptStrs(r.op_names)),
        <<"s", "u", "b", "g", "r", "a", "p", "h", "s">>, OptStrs(r.subgraphs)))

-----------------------------------------------------------------------------
(* The pipeline Compiler -> IR -> Decompiler: the compiled result is       *)
(* serialised and handed to decompile_from_data.                           *)

\* The option sets decompile_from_data is called with (None: the defaults)
Compact == [indent |-> 0, max_col |-> DefaultMaxCol, unescape |-> FALSE, keep_order |-> FALSE]

PipelineOptions == {None, Some(Compact)}

\* The caller serialises what compile returned
Serialize ==
    /\ pc = "done"
    /\ result.ok
    /\ ir' = ser_CompileResult(result.val)
    /\ \E options \in PipelineOptions : opts' = options
    /\ pc' = "serialized"
    /\ UNCHANGED <<ast, idx, vars, graphs, ops, result, OPTIONS, out>>

\* options.unwrap_or_default()
unwrap_or_default(options) == IF IsSome(options) THEN options.val ELSE DefaultOptions

\* decompile_from_data: set the thread-local options, decompile, return text or error
DecompileFromData ==
    /\ pc = "serialized"
    /\ OPTIONS' = unwrap_or_default(opts)
    /\ out' = decompile_from_data(ir, OPTIONS')
    /\ pc' = "end"
    /\ UNCHANGED <<ast, idx, vars, graphs, ops, result, ir, opts>>

Next ==
    \/ CompileModule
    \/ CompileReject
    \/ ProcessVarDef
    \/ ConvertGraphDef
    \/ ConvertOpDef
    \/ SkipStatement
    \/ FinishModule
    \/ Serialize
    \/ DecompileFromData

\* The whole pipeline on every root
Spec == CompileInit /\ [][Next]_allvars


-----------------------------------------------------------------------------
(* Properties of the compiler, checked on the pipeline `Spec`.             *)

\* compile has returned
Returned == pc \in {"done", "serialized", "end"}

(* C1: compile returns an error if and only if the root is not a Module:   *)
(* a root of any other variant gives the General error "Expected Module as *)
(* root AST node" and no CompileResult, and every Module root, whatever    *)
(* its children, gives Ok.                                                 *)
C1_ErrorIffRootNotModule ==
    Returned =>
        IF ast.kind = "Module"
        THEN result.ok
        ELSE result = [ok |-> FALSE, err |-> "Expected Module as root AST node"]

\* A variable block given as the root has been rejected
C1_Witness ==
    /\ pc = "done"
    /\ ast.kind = "VarDef"
    /\ result = [ok |-> FALSE, err |-> "Expected Module as root AST node"]

\* A collection that is present holds something
Populated(o) == IsSome(o) => o.val # <<>>

NodePopulated(n) ==
    /\ Populated(n.outputs) /\ Populated(n.inputs) /\ Populated(n.depends)
    /\ Populated(n.with) /\ Populated(n.properties) /\ Populated(n.for_loop)

GraphPopulated(g) ==
    /\ Populated(g.properties)
    /\ Populated(g.nodes)
    /\ IsSome(g.nodes) => \A k \in DOMAIN g.nodes.val : NodePopulated(g.nodes.val[k])

SpecsPopulated(o) ==
    /\ Populated(o)
    /\ IsSome(o) => \A k \in DOMAIN o.val : o.val[k] # <<>>

OpPopulated(op) ==
    /\ Populated(op.metas)
    /\ SpecsPopulated(op.inputs) /\ SpecsPopulated(op.outputs) /\ SpecsPopulated(op.configs)
    /\ IsSome(op.graph) => GraphPopulated(op.graph.val)

(* C3: in every IR compile produces no optional map or array of            *)
(* CompileResult, GraphDict, NodeDict or OpDict, a node's outputs and      *)
(* inputs and the per-spec maps of an operation included, is present with  *)
(* zero elements.                                                          *)
C3_AbsenceNotEmptiness ==
    (Returned /\ result.ok) =>
        /\ Populated(result.val.graphs) /\ Populated(result.val.ops)
        /\ Populated(result.val.vars)
        /\ Populated(result.val.op_names) /\ Populated(result.val.subgraphs)
        /\ IsSome(result.val.graphs) =>
              \A i \in 1..Len(result.val.graphs.val) : GraphPopulated(result.val.graphs.val[i])
        /\ IsSome(result.val.ops) =>
              \A i \in 1..Len(result.val.ops.val) : OpPopulated(result.val.ops.val[i])

\* Some graph of the compiled result has nodes
HasNodes ==
    /\ IsSome(result.val.graphs)
    /\ \E i \in 1..Len(result.val.graphs.val) : IsSome(result.val.graphs.val[i].nodes)

(* C2: the IR the compiler produces is consumable by the decompiler: for   *)
(* every Module whose graphs hold node definitions, decompiling the        *)
(* serialised CompileResult succeeds.                                      *)
C2_CompiledIRDecompiles ==
    (pc = "end" /\ result.ok /\ HasNodes) => out.ok

(* C4: every successful compile yields gos_version "0.5.2", and a Module   *)
(* with no children yields graphs, ops and vars all None.                  *)
C4_VersionAndEmptyModule ==
    (Returned /\ result.ok) =>
        /\ result.val.gos_version = <<"0", ".", "5", ".", "2">>
        /\ ast.children = <<>> =>
              /\ result.val.graphs = None
              /\ result.val.ops = None
              /\ result.val.vars = None

\* The empty Module has been compiled
C4_Witness ==
    /\ pc = "done"
    /\ ast = Module(<<>>)
    /\ result.ok
    /\ result.val.gos_version = <<"0", ".", "5", ".", "2">>
    /\ result.val.vars = None

\* The statement the loop has just processed
LastStatement == ast.children[idx - 1]

AfterStatement(kind) ==
    /\ pc = "loop" /\ idx > 1 /\ ast.kind = "Module" /\ LastStatement.kind = kind

AttrIndexes(blk) == {i \in 1..Len(blk.children) : blk.children[i].kind = "AttrDef"}

\* '<alias>.<attribute>' for an aliased block, the bare attribute name otherwise
ExpectedKey(blk, i) ==
    IF IsSome(blk.alias)
    THEN blk.alias.val.name \o <<".">> \o Trim(blk.children[i].name.name)
    ELSE Trim(blk.children[i].name.name)

\* '<alias>.as'
MarkerKey(blk) == blk.alias.val.name \o <<".", "a", "s">>

\* No later write of the block goes to the key of attribute i
LastWriteOfKey(blk, i) ==
    /\ \A j \in AttrIndexes(blk) : j > i => ExpectedKey(blk, j) # ExpectedKey(blk, i)
    /\ IsSome(blk.alias) => ExpectedKey(blk, i) # MarkerKey(blk)

(* C5: for every attribute of a variable block the table receives the      *)
(* converted value under '<alias>.<attribute>' if the block has an alias   *)
(* and under the bare attribute name otherwise; an aliased block also      *)
(* yields '<alias>.as' = <alias>, a block without alias adds no '.as'.     *)
C5_VarBlockKeys ==
    AfterStatement("VarDef") =>
        /\ \A i \in AttrIndexes(LastStatement) :
              /\ ExpectedKey(LastStatement, i) \in DOMAIN vars
              /\ LastWriteOfKey(LastStatement, i) =>
                    vars[ExpectedKey(LastStatement, i)]
                        = convert_ast_to_value(LastStatement.children[i].value)
        /\ IsSome(LastStatement.alias) =>
              /\ MarkerKey(LastStatement) \in DOMAIN vars
              /\ vars[MarkerKey(LastStatement)] = VStr(LastStatement.alias.val.name)
        /\ IsNone(LastStatement.alias) =>
              \A k \in DOMAIN vars :
                  EndsWith(k, <<".", "a", "s">>) =>
                      \E j \in 1..(idx - 2) :
                          /\ ast.children[j].kind = "VarDef"
                          /\ IsSome(ast.children[j].alias)
                          /\ k = MarkerKey(ast.children[j])

\* var { n = "x"; v = 42; } as c; gave c.n = "x", c.v = 42, c.as = "c"
C5_Witness ==
    /\ AfterStatement("VarDef")
    /\ idx = 2
    /\ LastStatement = VarA
    /\ vars = (sCN :> VStr(sX)) @@ (sCV :> VNum(42)) @@ (sCAs :> VStr(sC))


\* The writes a variable block makes, in order: one per attribute, then the marker
RECURSIVE AttrWrites(_, _)
AttrWrites(blk, i) ==
    IF i > Len(blk.children) THEN <<>>
    ELSE (IF blk.children[i].kind = "AttrDef"
          THEN <<[key |-> ExpectedKey(blk, i),
                  value |-> convert_ast_to_value(blk.children[i].value)]>>
          ELSE <<>>)
         \o AttrWrites(blk, i + 1)

BlockWrites(blk) ==
    AttrWrites(blk, 1)
        \o (IF IsSome(blk.alias)
            THEN <<[key |-> MarkerKey(blk), value |-> VStr(blk.alias.val.name)]>>
            ELSE <<>>)

\* The writes of the variable blocks among the first n statements of the Module
RECURSIVE WritesBefore(_)
WritesBefore(n) ==
    IF n = 0 THEN <<>>
    ELSE WritesBefore(n - 1)
            \o (IF ast.children[n].kind = "VarDef" THEN BlockWrites(ast.children[n]) ELSE <<>>)

\* The table a sequence of writes leaves: for each key the value written last
LastWritten(ws) ==
    [k \in {ws[i].key : i \in 1..Len(ws)} |->
        ws[CHOOSE i \in 1..Len(ws) :
              /\ ws[i].key = k
              /\ \A j \in (i + 1)..Len(ws) : ws[j].key # k].value]

\* The fold of the variable blocks that precede statement n + 1
TableBefore(n) == LastWritten(WritesBefore(n))

\* The graph and operation blocks among the first n statements, each converted
\* with the table of the variable blocks that precede it
RECURSIVE GraphsBefore(_)
GraphsBefore(n) ==
    IF n = 0 THEN <<>>
    ELSE GraphsBefore(n - 1)
            \o (IF ast.children[n].kind = "GraphDef"
                THEN <<convert_graph_def(ast.children[n], TableBefore(n - 1))>>
                ELSE <<>>)

RECURSIVE OpsBefore(_)
OpsBefore(n) ==
    IF n = 0 THEN <<>>
    ELSE OpsBefore(n - 1)
            \o (IF ast.children[n].kind = "OpDef"
                THEN <<convert_op_def(ast.children[n], TableBefore(n - 1))>>
                ELSE <<>>)

Presence(collection) == IF collection = <<>> THEN None ELSE Some(collection)

(* C6: the compiler makes one left-to-right pass with a running variable   *)
(* table: the table a graph or operation block is resolved with is the     *)
(* fold of the variable blocks that precede it, a later write to a key     *)
(* replacing the earlier value without an error; variable blocks after a   *)
(* block do not change its IR, and the final vars hold the last value      *)
(* written to each key.                                                    *)
C6_SinglePassRunningTable ==
    /\ (pc = "loop" /\ ast.kind = "Module") =>
          /\ vars = TableBefore(idx - 1)
          /\ graphs = GraphsBefore(idx - 1)
          /\ ops = OpsBefore(idx - 1)
    /\ (Returned /\ ast.kind = "Module") =>
          /\ result.ok
          /\ result.val.vars = Presence(TableBefore(Len(ast.children)))
          /\ result.val.graphs = Presence(GraphsBefore(Len(ast.children)))
          /\ result.val.ops = Presence(OpsBefore(Len(ast.children)))

\* var {n = "x"; ...} as c; graph {... a = op(x, y).m(c.n)...}; var {n = 1; n = [...]} as c;
\* the node was resolved with the first block, the final table holds the last write
C6_Witness ==
    /\ pc = "done"
    /\ ast = Module(<<VarA, GraphA, VarC>>)
    /\ result.ok
    /\ result.val.graphs.val[1].nodes.val[sA].with.val[sM] = VStr(sX)
    /\ result.val.vars.val[sCN].t = "arr"
    /\ result.val.vars.val[sCV] = VFloat(<<"1", ".", "5">>)

\* The attribute chain of an explicit node definition
ChainOf(node_def) == IF IsSome(node_def.value.attrs) THEN node_def.value.attrs.val ELSE <<>>

InWith(node, name) == IsSome(node.with) /\ name \in DOMAIN node.with.val

\* What C8 says of one entry of the chain, for the NodeDict the definition gave
SpecialCased(node, name) ==
    CASE name = <<"v", "e", "r", "s", "i", "o", "n">> -> IsSome(node.version) /\ ~InWith(node, name)
      [] name = <<"a", "s">> -> IsSome(node.alias) /\ ~InWith(node, name)
      [] name = <<"o", "v", "e", "r", "r", "i", "d", "e">> ->
            IsSome(node.override_flag) /\ ~InWith(node, name)
      [] OTHER -> InWith(node, name)

\* The explicit node definitions of the graph block just converted, by their key
NamedNodeDefs(graph_def) ==
    {i \in 1..Len(graph_def.children) :
        /\ graph_def.children[i].kind = "NodeDef"
        /\ graph_def.children[i].outputs # <<>>}

(* C8: for an explicit node definition every attribute-chain entry named   *)
(* version, as or override goes to its own NodeDict field (version, alias, *)
(* override_flag become present, e.g. .override(true) makes override_flag  *)
(* present) and never to `with`; every other entry appears in `with`       *)
(* under its own name.                                                     *)
C8_SpecialAttributes ==
    AfterStatement("GraphDef") =>
        \A i \in NamedNodeDefs(LastStatement) :
            \A a \in 1..Len(ChainOf(LastStatement.children[i])) :
                SpecialCased(graphs[Len(graphs)].nodes.val[LastStatement.children[i].outputs[1].name],
                             ChainOf(LastStatement.children[i])[a].name.name)


-----------------------------------------------------------------------------
(* Variable resolution on its own: resolve_variable_references applied to  *)
(* values and tables drawn from bounded sets.                              *)

\* The longest array of the values resolution is applied to
MaxLen == 2

\* Tables: empty; scalar values, one of them itself a key; an array value
ResolveTables ==
    { EmptyMap,
      (sCN :> VStr(sX)) @@ (sN :> VNum(1)) @@ (sX :> VStr(sCN)),
      (sCN :> VArr(<<VStr(sN)>>)) @@ (sK :> VBool(TRUE)) }

\* Strings: keys, strings that hold the key c.n as a substring, and a stranger
ResolveStrings == {sCN, sN, sX, <<"c", ".", "n", "x">>, <<"x", "c", ".", "n">>, sQ}

ResolveLeaves ==
    {VStr(s) : s \in ResolveStrings}
        \cup {VNum(1), VBool(TRUE), VNull, VFloat(<<"1", ".", "5">>)}

ResolveArrays == {VArr(items) : items \in UNION {[1..n -> ResolveLeaves] : n \in 0..MaxLen}}

\* Objects whose keys are, or are not, keys of the table
ResolveObjects ==
    {VObj(<<Entry(k, v)>>) : k \in {sCN, sK}, v \in ResolveLeaves}
        \cup {VObj(<<Entry(sCN, v), Entry(sK, w)>>) : v \in ResolveLeaves, w \in ResolveLeaves}

ResolveNested ==
    {VArr(<<o>>) : o \in {VObj(<<Entry(k, v)>>) : k \in {sCN, sK}, v \in ResolveLeaves}}
        \cup {VObj(<<Entry(sCN, VArr(<<v>>))>>) : v \in ResolveLeaves}

ResolveValues == ResolveLeaves \cup ResolveArrays \cup ResolveObjects \cup ResolveNested

ResolveInit ==
    /\ ast = Module(<<>>)
    /\ pc = "resolve"
    /\ idx = 1
    /\ vars \in ResolveTables
    /\ graphs = <<>>
    /\ ops = <<>>
    /\ result = NotReturned
    /\ ir \in ResolveValues
    /\ opts = None
    /\ OPTIONS = DefaultOptions
    /\ out = NotReturned

\* self.resolve_variable_references(&value, vars)
Resolve ==
    /\ pc = "resolve"
    /\ out' = resolve_variable_references(ir, vars)
    /\ pc' = "resolved"
    /\ UNCHANGED <<ast, idx, vars, graphs, ops, result, ir, opts, OPTIONS>>

ResolveNext == Resolve

SpecResolve == ResolveInit /\ [][ResolveNext]_allvars

\* r is what C7 says resolution makes of value
RECURSIVE ResolvedAs(_, _, _)
ResolvedAs(value, r, vs) ==
    CASE value.t = "str" -> r = (IF value.v \in DOMAIN vs THEN vs[value.v] ELSE value)
      [] value.t = "arr" ->
            /\ r.t = "arr"
            /\ Len(r.v) = Len(value.v)
            /\ \A i \in 1..Len(value.v) : ResolvedAs(value.v[i], r.v[i], vs)
      [] value.t = "obj" ->
            /\ r.t = "obj"
            /\ Len(r.v) = Len(value.v)
            /\ \A i \in 1..Len(value.v) :
                  /\ r.v[i].k = value.v[i].k
                  /\ ResolvedAs(value.v[i].v, r.v[i].v, vs)
      [] OTHER -> r = value

(* C7: resolution is whole-string exact matching: a string is replaced by  *)
(* the stored value iff the entire string equals a key of the table; the   *)
(* same rule applies to every element of an array and every field value of *)
(* an object; non-string scalars, object keys and strings that merely      *)
(* contain a key are left unchanged.                                       *)
C7_WholeStringResolution ==
    pc = "resolved" => ResolvedAs(ir, out, vars)

\* In ["c.nx", "c.n"] with c.n = "x" only the second element was replaced
C7_Witness ==
    /\ pc = "resolved"
    /\ sCN \in DOMAIN vars
    /\ vars[sCN] = VStr(sX)
    /\ ir = VArr(<<VStr(<<"c", ".", "n", "x">>), VStr(sCN)>>)
    /\ out = VArr(<<VStr(<<"c", ".", "n", "x">>), VStr(sX)>>)

-----------------------------------------------------------------------------
(* The Decompiler on IR written by hand (decompile_from_data is public and  *)
(* takes any JSON value): graphs whose parameter lists straddle the column *)
(* budget, and nodes of every shape.                                       *)

MaxItems == 3

Letters == <<"a", "b", "c", "d", "e", "f", "g", "h">>

\* The value of the i-th entry of a parameter map
ParamValue(style, i) ==
    IF style = "num" THEN VNum(i) ELSE VStr(SubSeq(Letters, 1, i))

\* A parameter map of n entries with scalar values, keys in BTreeMap order
ParamMap(style, n) == VObj([i \in 1..n |-> Entry(<<Letters[i]>>, ParamValue(style, i))])

\* A parameter map whose values are collections
NestedMap ==
    VObj(<<Entry(<<"a">>, VArr(<<VNum(1), VNum(2)>>)),
           Entry(<<"b">>, VObj(<<Entry(<<"k">>, VStr(<<"v">>))>>))>>)

ParamMaps == {ParamMap(style, n) : style \in {"num", "str"}, n \in 0..MaxItems} \cup {NestedMap}

\* A positional input list of n names
InputList(style, n) ==
    VArr([i \in 1..n |-> VStr(IF style = "short" THEN <<Letters[i]>> ELSE SubSeq(Letters, 1, i + 1))])

InputLists == {InputList(style, n) : style \in {"short", "long"}, n \in 0..MaxItems}

\* serde_json's json!({...}): the entries end up sorted by key
RECURSIVE JsonObject(_)
JsonObject(pairs) ==
    IF pairs = <<>> THEN <<>>
    ELSE MapInsert(JsonObject(SubSeq(pairs, 1, Len(pairs) - 1)),
                   pairs[Len(pairs)][1], pairs[Len(pairs)][2])

\* {"graphs": [{"nodes": {"y": node}}]} with the graph's other fields
GraphIR(fields, node) ==
    VObj(JsonObject(<<<<<<"g", "r", "a", "p", "h", "s">>,
        VArr(<<VObj(JsonObject(fields \o <<<<<<"n", "o", "d", "e", "s">>, VObj(JsonObject(<<<<<<"y">>, node>>>>))>>>>))>>)>>>>))

\* y = op(<inputs>).with(<with>) in a graph with the property line <props>
WrapIR(props, inputs, with_) ==
    GraphIR(<<<<<<"p", "r", "o", "p", "e", "r", "t", "y">>, props>>>>,
            VObj(JsonObject(<<<<<<"o", "p", "_", "n", "a", "m", "e">>, VStr(<<"o", "p">>)>>,
                              <<<<"o", "u", "t", "p", "u", "t">>, VArr(<<VStr(<<"y">>)>>)>>,
                              <<<<"i", "n", "p", "u", "t">>, inputs>>,
                              <<<<"w", "i", "t", "h">>, with_>>>>)))

WrapIRs == {WrapIR(props, inputs, with_) : props \in ParamMaps, inputs \in InputLists, with_ \in ParamMaps}

ConditionOp == <<"b", "u", "i", "l", "t", "i", "n", ".", "c", "o", "n", "d", "i", "t", "i", "o", "n", "s", ".", "s", "t", "r">>

ShapeOpNames == {ConditionOp, <<"o", "p">>}

\* The for_loop field of a node: absent, not an object, empty, partial, complete
ForLoops ==
    {None,
     Some(VStr(<<"x", "s">>)),
     Some(VObj(<<>>)),
     Some(VObj(JsonObject(<<<<<<"c", "o", "n", "d", "i", "t", "i", "o", "n">>, VStr(<<"k">>)>>>>))),
     Some(VObj(JsonObject(<<<<<<"i", "n", "p", "u", "t", "s">>, VStr(<<"x", "s">>)>>>>))),
     Some(VObj(JsonObject(<<<<<<"o", "u", "t", "p", "u", "t", "s">>, VArr(<<VStr(<<"x">>)>>)>>>>))),
     Some(VObj(JsonObject(<<<<<<"i", "n", "p", "u", "t", "s">>, VStr(<<"x", "s">>)>>, <<<<"o", "u", "t", "p", "u", "t", "s">>, VArr(<<VStr(<<"x">>)>>)>>>>))),
     Some(VObj(JsonObject(<<<<<<"i", "n", "p", "u", "t", "s">>, VStr(<<"x", "s">>)>>, <<<<"o", "u", "t", "p", "u", "t", "s">>, VStr(<<"x">>)>>,
                            <<<<"c", "o", "n", "d", "i", "t", "i", "o", "n">>, VStr(<<"k">>)>>>>)))}

\* The fields a conditional is rendered from
BranchFields ==
    <<<<<<"c", "o", "n", "d", "i", "t", "i", "o", "n">>, VStr(<<"c">>)>>,
      <<<<"t", "r", "u", "e", "_", "b", "r", "a", "n", "c", "h">>, VObj(JsonObject(<<<<<<"o", "p", "_", "n", "a", "m", "e">>, VStr(<<"t">>)>>>>))>>,
      <<<<"f", "a", "l", "s", "e", "_", "b", "r", "a", "n", "c", "h">>, VObj(JsonObject(<<<<<<"o", "p", "_", "n", "a", "m", "e">>, VStr(<<"f">>)>>>>))>>>>

ShapeNode(op_name, fl, branches) ==
    VObj(JsonObject(<<<<<<"o", "p", "_", "n", "a", "m", "e">>, VStr(op_name)>>, <<<<"o", "u", "t", "p", "u", "t">>, VArr(<<VStr(<<"y">>)>>)>>>>
                    \o (IF IsSome(fl) THEN <<<<<<"f", "o", "r", "_", "l", "o", "o", "p">>, fl.val>>>> ELSE <<>>)
                    \o (IF branches THEN BranchFields ELSE <<>>)))

ShapeIRs ==
    {GraphIR(<<>>, ShapeNode(op_name, fl, branches)) :
        op_name \in ShapeOpNames, fl \in ForLoops, branches \in BOOLEAN}

DecompileInputs == WrapIRs \cup ShapeIRs

Indents == {0, 1, 2}

MaxCols == {8, 12, 16, 24}

DecompileOptionSets ==
    {Some([indent |-> i, max_col |-> n, unescape |-> FALSE, keep_order |-> FALSE]) :
        i \in Indents, n \in MaxCols}

\* A caller about to decompile: the IR and the options are its arguments
DecompileInit ==
    /\ ast = Module(<<>>)
    /\ pc = "serialized"
    /\ idx = 1
    /\ vars = EmptyMap
    /\ graphs = <<>>
    /\ ops = <<>>
    /\ result = NotReturned
    /\ ir \in DecompileInputs
    /\ opts \in DecompileOptionSets
    /\ OPTIONS = DefaultOptions
    /\ out = NotReturned

DecompileNext == DecompileFromData

SpecDecompile == DecompileInit /\ [][DecompileNext]_allvars

-----------------------------------------------------------------------------
(* Column wrapping, checked on `SpecDecompile`.                            *)

\* The graph, the node "y" and its lists in a hand-written IR
TheGraph == GetArr(ir, <<"g", "r", "a", "p", "h", "s">>).val[1]
TheNode == MapGet(GetObj(TheGraph, <<"n", "o", "d", "e", "s">>).val, <<"y">>)
TheProps == Get(TheGraph, <<"p", "r", "o", "p", "e", "r", "t", "y">>).val
TheWith == Get(TheNode, <<"w", "i", "t", "h">>).val
TheInputs == StrItems(GetArr(TheNode, <<"i", "n", "p", "u", "t">>).val)

Brk(n) == <<"\n">> \o Spaces(n)

SingleLine(strings) == Join(strings, <<",">>)

OnePerLine(strings, c) == Join(strings, <<",">> \o Brk(c))

\* A parameter map that starts at column c: one line if it ends within the
\* budget, otherwise every entry after the first on a line of its own
Listing(strings, c, o) ==
    IF c + Len(SingleLine(strings)) <= o.max_col THEN SingleLine(strings)
    ELSE OnePerLine(strings, c)

\* The items with a comma after each but the last, a break before those chosen
Filled(items, breaks, c) ==
    Concat([i \in 1..Len(items) |->
               (IF breaks[i] THEN Brk(c) ELSE <<>>) \o items[i]
                   \o (IF i < Len(items) THEN <<",">> ELSE <<>>)])

\* A node input list that starts at column c: one line if it ends within the
\* budget, otherwise broken before one item or more
InputListings(items, c, o) ==
    IF c + Len(SingleLine(items)) <= o.max_col THEN {SingleLine(items)}
    ELSE {Filled(items, breaks, c) :
             breaks \in {b \in [1..Len(items) -> BOOLEAN] : \E i \in 1..Len(items) : b[i]}}

\* The text of a WrapIR graph around its three lists
WrapText(props, inputs, with_, o) ==
    <<"g", "r", "a", "p", "h", " ", "{">> \o Brk(o.indent) \o props \o <<";">>
        \o Brk(o.indent) \o <<"y", " ", "=", " ", "o", "p", "(">> \o inputs \o <<")">>
        \o Brk(o.indent * 2) \o <<".", "w", "i", "t", "h", "(">> \o with_ \o <<")", ";">>
        \o <<"\n", "}", ";">>

Scalars(m) == \A i \in 1..Len(m.v) : ~IsArr(m.v[i].v) /\ ~IsObj(m.v[i].v)

\* The column ".with(" leaves the cursor at
WithCol(o) == o.indent * 2 + Len(<<"w", "i", "t", "h">>) + 1

Wrapped == pc = "end" /\ ir \in WrapIRs /\ OPTIONS.indent > 0

ByLength(strings, o) ==
    IF Len(SingleLine(strings)) <= o.max_col THEN {SingleLine(strings)}
    ELSE {OnePerLine(strings, c) : c \in 0..WithCol(o)}

-----------------------------------------------------------------------------
(* Node shapes, checked on `SpecDecompile`.                                *)

Shaped == pc = "end" /\ ir \in ShapeIRs

\* What follows "y = " on the node's line, up to the end of the graph
NodeLine ==
    LET head == <<"g", "r", "a", "p", "h", " ", "{">> \o indent(<<>>, OPTIONS.indent) \o <<"y", " ", "=", " ">>
        foot == (IF OPTIONS.indent > 0 THEN <<"\n">> ELSE <<>>) \o <<"}", ";">>
    IN  IF out.ok /\ StartsWith(out.val, head) /\ EndsWith(out.val, foot)
        THEN Some(SubSeq(out.val, Len(head) + 1, Len(out.val) - Len(foot)))
        ELSE None

\* A for_loop object that is not empty and holds both inputs and outputs
CompleteForLoop ==
    LET fl == Get(TheNode, <<"f", "o", "r", "_", "l", "o", "o", "p">>)
    IN  /\ IsSome(fl)
        /\ IsObj(fl.val)
        /\ \E i \in 1..Len(fl.val.v) : fl.val.v[i].k = <<"i", "n", "p", "u", "t", "s">>
        /\ \E i \in 1..Len(fl.val.v) : fl.val.v[i].k = <<"o", "u", "t", "p", "u", "t", "s">>

IsConditionOp == Get(TheNode, <<"o", "p", "_", "n", "a", "m", "e">>) = Some(VStr(ConditionOp))

HasBranches == IsSome(Get(TheNode, <<"t", "r", "u", "e", "_", "b", "r", "a", "n", "c", "h">>))

\* [ <node-call> for <outputs> in <inputs> [if <condition>] ];
ForLoopText(line) ==
    /\ StartsWith(line, <<"[">> \o Get(TheNode, <<"o", "p", "_", "n", "a", "m", "e">>).val.v \o <<"(">>)
    /\ Contains(line, <<"f", "o", "r", " ", "x", " ", "i", "n", " ", "x", "s">>)
    /\ EndsWith(line, <<"]", ";">>)

\* <condition> ? <true branch> : <false branch>;
ConditionText(line) == line = <<"c", " ", "?", " ", "t", "(", ")", " ", ":", " ", "f", "(", ")", ";">>

\* <op_name>(...)...;
GenericText(line) ==
    /\ StartsWith(line, Get(TheNode, <<"o", "p", "_", "n", "a", "m", "e">>).val.v \o <<"(">>)
    /\ EndsWith(line, <<";">>)
    /\ ~EndsWith(line, <<"]", ";">>)
    /\ ~Contains(line, <<" ", "?", " ">>)
    /\ ~Contains(line, <<"f", "o", "r", " ">>)

\* C10: a node with a non-empty for_loop object holding both inputs and
\* outputs is rendered as a for loop even when its op_name is
\* "builtin.conditions.str"; otherwise a node with that op_name is rendered as
\* a conditional; otherwise (a for_loop object missing inputs or outputs
\* included) as a generic node call ending in ';'.
C10_NodeShapePriority ==
    Shaped =>
        IF CompleteForLoop THEN IsSome(NodeLine) /\ ForLoopText(NodeLine.val)
        ELSE IF IsConditionOp
        THEN IF HasBranches THEN IsSome(NodeLine) /\ ConditionText(NodeLine.val)
             ELSE out = Err(Message("Condition node {} must have string condition", <<"y">>))
        ELSE IsSome(NodeLine) /\ GenericText(NodeLine.val)

\* A conditional's op_name on a node with a complete for_loop: the for loop wins
C10_Witness ==
    /\ Shaped
    /\ CompleteForLoop
    /\ IsConditionOp
    /\ HasBranches
    /\ IsSome(NodeLine)
    /\ ForLoopText(NodeLine.val)

-----------------------------------------------------------------------------
(* The Decompiler on the node and graph shapes of its test suite           *)
(* (src/src/tests/decompiler_tests.rs), at column budgets wide enough that *)
(* no list is broken.                                                      *)

Indented == [indent |-> 2, max_col |-> DefaultMaxCol, unescape |-> FALSE, keep_order |-> FALSE]

RenderOptionSets == {None, Some(Compact), Some(Indented)}

\* {"graphs": [{"nodes": {key: node}}]} with the graph's other fields
KeyedGraphIR(fields, key, node) ==
    VObj(JsonObject(<<<<<<"g", "r", "a", "p", "h", "s">>,
        VArr(<<VObj(JsonObject(fields \o <<<<<<"n", "o", "d", "e", "s">>, VObj(JsonObject(<<<<key, node>>>>))>>>>))>>)>>>>))

\* The fields a node call's chained suffixes are rendered from, in the order
\* node_block_from_value reads them
SuffixFields ==
    <<<<<<"a", "t", "t", "r", "s">>, VArr(<<VObj(JsonObject(<<<<<<"k", "e", "y">>, VStr(<<"k">>)>>, <<<<"v", "a", "l", "u", "e">>, VStr(<<"v">>)>>>>))>>)>>,
      <<<<"v", "e", "r", "s", "i", "o", "n">>, VStr(<<"1">>)>>,
      <<<<"s", "t", "a", "r", "t">>, VBool(TRUE)>>,
      <<<<"e", "n", "d">>, VBool(TRUE)>>,
      <<<<"d", "e", "p", "e", "n", "d">>, VArr(<<VStr(<<"d">>)>>)>>,
      <<<<"o", "v", "e", "r", "r", "i", "d", "e">>, VBool(TRUE)>>,
      <<<<"p", "r", "o", "p", "e", "r", "t", "y">>, VObj(<<Entry(<<"p">>, VNum(1))>>)>>,
      <<<<"w", "i", "t", "h">>, VObj(<<Entry(<<"w">>, VNum(1))>>)>>,
      <<<<"l", "o", "g">>, VObj(<<Entry(<<"l">>, VNum(1))>>)>>,
      <<<<"m", "e", "t", "r", "i", "c", "s">>, VObj(<<Entry(<<"m">>, VNum(1))>>)>>,
      <<<<"f", "u", "n", "n", "e", "l">>, VObj(<<Entry(<<"f">>, VNum(1))>>)>>>>

\* The members of `present` among the items, in the items' order
RECURSIVE Pick(_, _, _)
Pick(items, present, i) ==
    IF i > Len(items) THEN <<>>
    ELSE (IF i \in present THEN <<items[i]>> ELSE <<>>) \o Pick(items, present, i + 1)

Reverse(s) == [i \in 1..Len(s) |-> s[Len(s) + 1 - i]]

SuffixOp == <<"s", "f", "x">>

\* A generic node with the chosen suffix fields; `reversed`: the object's
\* entries in descending key order (an object keeps the order it was built in
\* when serde_json preserves insertion order)
SuffixNode(present, outputs, reversed) ==
    LET entries == JsonObject(<<<<<<"o", "p", "_", "n", "a", "m", "e">>, VStr(SuffixOp)>>, <<<<"o", "u", "t", "p", "u", "t">>, outputs>>>>
                              \o Pick(SuffixFields, present, 1))
    IN  VObj(IF reversed THEN Reverse(entries) ELSE entries)

SuffixOutputs == {VArr(<<VStr(<<"y">>)>>), VArr(<<VStr(<<"a", ".", "b">>)>>)}

MaxChosen == 2

\* The sets of suffix fields a node is given: few of them, or all but a few
SuffixChoices ==
    {present \in SUBSET (1..Len(SuffixFields)) :
        \/ Cardinality(present) <= MaxChosen
        \/ Cardinality(present) >= Len(SuffixFields) - MaxChosen}

SuffixIRs ==
    {KeyedGraphIR(<<>>, <<"y">>, SuffixNode(present, outputs, reversed)) :
        present \in SuffixChoices, outputs \in SuffixOutputs, reversed \in BOOLEAN}

\* The fields a graph may carry next to its nodes
GraphFields ==
    <<<<<<"a", "s">>, VStr(<<"m", "a", "i", "n">>)>>,
      <<<<"v", "e", "r", "s", "i", "o", "n">>, VStr(<<"1", ".", "0">>)>>,
      <<<<"t", "e", "m", "p", "l", "a", "t", "e", "_", "g", "r", "a", "p", "h">>, VStr(<<"t", "p", "l">>)>>,
      <<<<"p", "r", "o", "p", "e", "r", "t", "y">>, VObj(<<Entry(<<"p">>, VNum(1))>>)>>,
      <<<<"p", "r", "o", "p", "e", "r", "t", "i", "e", "s">>, VObj(<<Entry(<<"q">>, VNum(2))>>)>>>>

CallOp == <<"t", ".", "o", "p">>

RefGraph == <<"s", "u", "b">>

\* What a node calls: an operation, or a graph by reference
Callees == {<<<<<<"o", "p", "_", "n", "a", "m", "e">>, VStr(CallOp)>>>>, <<<<<<"r", "e", "f", "_", "g", "r", "a", "p", "h">>, VStr(RefGraph)>>>>}

\* Positional inputs that are plain identifiers
IdentifierInputs == {VArr([i \in 1..n |-> VStr(<<Letters[i]>>)]) : n \in 0..MaxItems}

\* Positional inputs that are not: strings with spaces or quotes, an object, a number
OtherInputs ==
    {VArr(<<VStr(<<"a", " ", "b">>), VStr(<<"c", "'", "d">>)>>),
     VArr(<<VObj(<<Entry(<<"k">>, VStr(<<"v">>)), Entry(<<"n">>, VNum(1))>>)>>),
     VArr(<<VStr(<<"a">>), VNum(5)>>)}

CallNode(callee, inputs) ==
    VObj(JsonObject(callee \o <<<<<<"o", "u", "t", "p", "u", "t">>, VArr(<<VStr(<<"y">>)>>)>>, <<<<"i", "n", "p", "u", "t">>, inputs>>>>))

CallIRs ==
    {KeyedGraphIR(Pick(GraphFields, present, 1), <<"y">>, CallNode(callee, inputs)) :
        present \in SUBSET (1..Len(GraphFields)),
        callee \in Callees,
        inputs \in IdentifierInputs \cup OtherInputs}

\* The fields of an operation object
OpFields ==
    <<<<<<"a", "s">>, VStr(<<"o">>)>>,
      <<<<"v", "e", "r", "s", "i", "o", "n">>, VStr(<<"1">>)>>,
      <<<<"i", "n", "p", "u", "t", "s">>, VObj(<<Entry(<<"i">>, VObj(<<Entry(<<"d", "t", "y", "p", "e">>, VStr(<<"s">>))>>))>>)>>>>

\* The metas of an operation: none, plain, or holding the alias and version
OpMetas ==
    {<<>>,
     <<<<<<"m", "e", "t", "a", "s">>, VObj(<<Entry(<<"d">>, VStr(<<"x">>))>>)>>>>,
     <<<<<<"m", "e", "t", "a", "s">>, VObj(JsonObject(<<<<<<"d">>, VStr(<<"x">>)>>, <<<<"a", "s">>, VStr(<<"m">>)>>,
                                      <<<<"v", "e", "r", "s", "i", "o", "n">>, VStr(<<"2">>)>>>>))>>>>}

\* {"ops": [op]}
OpIRs ==
    {VObj(<<Entry(<<"o", "p", "s">>, VArr(<<VObj(JsonObject(Pick(OpFields, present, 1) \o metas))>>))>>) :
        present \in SUBSET (1..Len(OpFields)), metas \in OpMetas}

PlainOp == <<"g", ".", "o", "p">>

NodeKeys == {<<"y">>, <<"1", "y">>}

NodeOutputs ==
    {VArr(<<VStr(<<"y">>)>>), VArr(<<VStr(<<"1", "y">>)>>),
     VArr(<<VStr(<<"a", ".", "y">>)>>), VArr(<<VStr(<<"a", ".", "b">>), VStr(<<"c", ".", "d">>)>>)}

\* Complete for_loop objects: outputs a list or a string, the condition a
\* string, absent or not a string
LoopSpecs ==
    {<<>>,
     <<<<<<"f", "o", "r", "_", "l", "o", "o", "p">>, VObj(JsonObject(<<<<<<"i", "n", "p", "u", "t", "s">>, VStr(<<"x", "s">>)>>, <<<<"o", "u", "t", "p", "u", "t", "s">>, VArr(<<VStr(<<"x">>)>>)>>>>))>>>>,
     <<<<<<"f", "o", "r", "_", "l", "o", "o", "p">>, VObj(JsonObject(<<<<<<"i", "n", "p", "u", "t", "s">>, VStr(<<"x", "s">>)>>,
                                          <<<<"o", "u", "t", "p", "u", "t", "s">>, VArr(<<VStr(<<"x">>), VStr(<<"z">>)>>)>>,
                                          <<<<"c", "o", "n", "d", "i", "t", "i", "o", "n">>, VStr(<<"x", ".", "o", "k">>)>>>>))>>>>,
     <<<<<<"f", "o", "r", "_", "l", "o", "o", "p">>, VObj(JsonObject(<<<<<<"i", "n", "p", "u", "t", "s">>, VStr(<<"x", "s">>)>>, <<<<"o", "u", "t", "p", "u", "t", "s">>, VStr(<<"x">>)>>,
                                          <<<<"c", "o", "n", "d", "i", "t", "i", "o", "n">>, VNum(1)>>>>))>>>>}

\* The branches of a conditional: node calls without and with inputs and a version
BranchNodes ==
    {VObj(JsonObject(<<<<<<"o", "p", "_", "n", "a", "m", "e">>, VStr(<<"m", ".", "a", "d", "d">>)>>>>)),
     VObj(JsonObject(<<<<<<"o", "p", "_", "n", "a", "m", "e">>, VStr(<<"m", ".", "a", "d", "d">>)>>, <<<<"i", "n", "p", "u", "t">>, VArr(<<VStr(<<"x">>), VStr(<<"1">>)>>)>>>>)),
     VObj(JsonObject(<<<<<<"o", "p", "_", "n", "a", "m", "e">>, VStr(<<"m", ".", "s", "u", "b">>)>>, <<<<"i", "n", "p", "u", "t">>, VArr(<<VStr(<<"x">>)>>)>>,
                       <<<<"v", "e", "r", "s", "i", "o", "n">>, VStr(<<"2">>)>>>>))}

\* What makes a node a conditional, or nothing for a generic node
Conditionals ==
    {<<<<<<"o", "p", "_", "n", "a", "m", "e">>, VStr(PlainOp)>>>>}
    \cup {<<<<<<"o", "p", "_", "n", "a", "m", "e">>, VStr(ConditionOp)>>, <<<<"c", "o", "n", "d", "i", "t", "i", "o", "n">>, VStr(<<"x", " ", ">", " ", "0">>)>>,
            <<<<"t", "r", "u", "e", "_", "b", "r", "a", "n", "c", "h">>, t>>, <<<<"f", "a", "l", "s", "e", "_", "b", "r", "a", "n", "c", "h">>, f>>>> : t \in BranchNodes, f \in BranchNodes}

KeyedIRs ==
    {KeyedGraphIR(<<>>, key, VObj(JsonObject(<<<<<<"o", "u", "t", "p", "u", "t">>, outputs>>>> \o loop \o cond))) :
        key \in NodeKeys, outputs \in NodeOutputs, loop \in LoopSpecs, cond \in Conditionals}

RenderInputs == SuffixIRs \cup CallIRs \cup OpIRs \cup KeyedIRs

\* A caller about to decompile one of the shapes
RenderInit ==
    /\ ast = Module(<<>>)
    /\ pc = "serialized"
    /\ idx = 1
    /\ vars = EmptyMap
    /\ graphs = <<>>
    /\ ops = <<>>
    /\ result = NotReturned
    /\ ir \in RenderInputs
    /\ opts \in RenderOptionSets
    /\ OPTIONS = DefaultOptions
    /\ out = NotReturned

RenderNext == DecompileFromData

SpecRender == RenderInit /\ [][RenderNext]_allvars

-----------------------------------------------------------------------------
(* Node rendering, checked on `SpecRender`.                                *)

\* The IR holds one graph with one node
HasOneNode ==
    /\ IsSome(GetArr(ir, <<"g", "r", "a", "p", "h", "s">>))
    /\ Len(GetArr(ir, <<"g", "r", "a", "p", "h", "s">>).val) = 1
    /\ IsSome(GetObj(TheGraph, <<"n", "o", "d", "e", "s">>))
    /\ Len(GetObj(TheGraph, <<"n", "o", "d", "e", "s">>).val) = 1

TheKey == GetObj(TheGraph, <<"n", "o", "d", "e", "s">>).val[1].k

OnlyNode == GetObj(TheGraph, <<"n", "o", "d", "e", "s">>).val[1].v

\* The returned text between `before` and `after`, if it has that frame
Between(before, after) ==
    IF out.ok /\ StartsWith(out.val, before) /\ EndsWith(out.val, after)
          /\ Len(before) + Len(after) <= Len(out.val)
    THEN Some(SubSeq(out.val, Len(before) + 1, Len(out.val) - Len(after)))
    ELSE None

GraphOpen == <<"g", "r", "a", "p", "h", " ", "{">> \o indent(<<>>, OPTIONS.indent)

GraphClose == (IF OPTIONS.indent > 0 THEN <<"\n">> ELSE <<>>) \o <<"}", ";">>

\* What follows "<lhs> = " on the only node's line
CallAfter(lhs) == Between(GraphOpen \o lhs \o <<" ", "=", " ">>, GraphClose)

Rendered(op_name) ==
    pc = "end" /\ HasOneNode /\ GetStr(OnlyNode, <<"o", "p", "_", "n", "a", "m", "e">>) = Some(op_name)

\* The suffix each field stands for, keyed like SuffixFields
SuffixTexts ==
    <<<<".", "k", "(", "v", ")">>, <<".", "v", "e", "r", "s", "i", "o", "n", "(", "'", "1", "'", ")">>, <<".", "a", "s", "(", "s", "t", "a", "r", "t", ")">>, <<".", "a", "s", "(", "e", "n", "d", ")">>, <<".", "d", "e", "p", "e", "n", "d", "(", "d", ")">>, <<".", "o", "v", "e", "r", "r", "i", "d", "e", "(", "t", "r", "u", "e", ")">>,
      indent(<<>>, OPTIONS.indent * 2) \o <<".", "p", "r", "o", "p", "e", "r", "t", "y", "(", "p", "=", "1", ")">>,
      indent(<<>>, OPTIONS.indent * 2) \o <<".", "w", "i", "t", "h", "(", "w", "=", "1", ")">>,
      indent(<<>>, OPTIONS.indent * 2) \o <<".", "l", "o", "g", "(", "l", "=", "1", ")">>,
      indent(<<>>, OPTIONS.indent * 2) \o <<".", "m", "e", "t", "r", "i", "c", "s", "(", "m", "=", "1", ")">>,
      indent(<<>>, OPTIONS.indent * 2) \o <<".", "f", "u", "n", "n", "e", "l", "(", "f", "=", "1", ")">>>>

PresentFields == {i \in 1..Len(SuffixFields) : MapHas(OnlyNode.v, SuffixFields[i][1])}

Aliased == Join(StrItems(GetArr(OnlyNode, <<"o", "u", "t", "p", "u", "t">>).val), <<",">>) # TheKey

\* C11: the chained suffixes of a node call come in the fixed order attrs
\* entries, .version, .as(name), .as(start), .as(end), .depend, .override,
\* .property, .with, .log, .metrics, .funnel; each appears exactly when its field
\* is present (.as(name): when the outputs differ from the key), whatever the
\* order of the keys in the node object.
C11_SuffixOrder ==
    Rendered(SuffixOp) =>
        CallAfter(IF Aliased THEN <<"b">> ELSE <<"y">>) =
            Some(<<"s", "f", "x", "(", ")">>
                 \o Concat(Pick(SuffixTexts, PresentFields \cap {1, 2}, 1))
                 \o (IF Aliased THEN <<".", "a", "s", "(", "y", ")">> ELSE <<>>)
                 \o Concat(Pick(SuffixTexts, PresentFields \ {1, 2}, 1))
                 \o <<";">>)

\* Every suffix at once, on a node object whose keys are in descending order
C11_Witness ==
    /\ Rendered(SuffixOp)
    /\ PresentFields = 1..Len(SuffixFields)
    /\ Aliased
    /\ OnlyNode.v[1].k = <<"w", "i", "t", "h">>
    /\ out.ok
    /\ Contains(out.val, <<".", "a", "s", "(", "y", ")", ".", "a", "s", "(", "s", "t", "a", "r", "t", ")", ".", "a", "s", "(", "e", "n", "d", ")", ".", "d", "e", "p", "e", "n", "d", "(", "d", ")", ".", "o", "v", "e", "r", "r", "i", "d", "e", "(", "t", "r", "u", "e", ")">>)

-----------------------------------------------------------------------------
(* Node calls and the graph around them, checked on `SpecRender`.          *)

GraphHas(field) == MapHas(TheGraph.v, field)

\* The positional inputs are strings that are plain identifiers
PlainInputs ==
    /\ IsSome(GetArr(OnlyNode, <<"i", "n", "p", "u", "t">>))
    /\ \A i \in 1..Len(GetArr(OnlyNode, <<"i", "n", "p", "u", "t">>).val) :
           /\ IsStr(GetArr(OnlyNode, <<"i", "n", "p", "u", "t">>).val[i])
           /\ VALID_IDENTIFIER(GetArr(OnlyNode, <<"i", "n", "p", "u", "t">>).val[i].v)

\* C12: a generic node whose output list equals its key renders as
\* '<key> = <op_name>(<in1>,<in2>,...);', the inputs comma-joined in array
\* order and no .as(...) suffix, in a graph with header 'graph {' and footer
\* '} as <alias>;' when the graph has an alias and no template.
C12_BasicGraph ==
    (/\ Rendered(CallOp) /\ PlainInputs
     /\ GraphHas(<<"a", "s">>) /\ ~GraphHas(<<"t", "e", "m", "p", "l", "a", "t", "e", "_", "g", "r", "a", "p", "h">>)
     /\ ~GraphHas(<<"v", "e", "r", "s", "i", "o", "n">>) /\ ~GraphHas(<<"p", "r", "o", "p", "e", "r", "t", "y">>)) =>
        /\ out.ok
        /\ out.val = <<"g", "r", "a", "p", "h", " ", "{">>
                        \o indent(<<>>, OPTIONS.indent)
                        \o <<"y", " ", "=", " ", "t", ".", "o", "p", "(">> \o Join(StrItems(GetArr(OnlyNode, <<"i", "n", "p", "u", "t">>).val), <<",">>) \o <<")", ";">>
                        \o (IF OPTIONS.indent > 0 THEN <<"\n">> ELSE <<>>)
                        \o <<"}", " ", "a", "s", " ", "m", "a", "i", "n", ";">>

\* node1 = test.op(input1,input2); in graph { ... } as main;
C12_Witness ==
    /\ Rendered(CallOp) /\ PlainInputs
    /\ Len(GetArr(OnlyNode, <<"i", "n", "p", "u", "t">>).val) = 2
    /\ GraphHas(<<"a", "s">>) /\ ~GraphHas(<<"t", "e", "m", "p", "l", "a", "t", "e", "_", "g", "r", "a", "p", "h">>)
    /\ ~GraphHas(<<"v", "e", "r", "s", "i", "o", "n">>) /\ ~GraphHas(<<"p", "r", "o", "p", "e", "r", "t", "y">>)
    /\ OPTIONS = DefaultOptions
    /\ out.ok
    /\ Contains(out.val, <<"y", " ", "=", " ", "t", ".", "o", "p", "(", "a", ",", "b", ")", ";">>)
    /\ EndsWith(out.val, <<"}", " ", "a", "s", " ", "m", "a", "i", "n", ";">>)

RenderedRef ==
    pc = "end" /\ HasOneNode /\ GetStr(OnlyNode, <<"r", "e", "f", "_", "g", "r", "a", "p", "h">>) = Some(RefGraph)

\* C13: a node that carries ref_graph (its output equal to its key) renders as
\* '<key> = ref(<ref_graph>)(<inputs>);', the graph name closed by ')' before
\* the input list opens.
C13_RefGraphCall ==
    (RenderedRef /\ PlainInputs) =>
        /\ out.ok
        /\ Contains(out.val,
                    <<"y", " ", "=", " ", "r", "e", "f", "(", "s", "u", "b", ")", "(">> \o Join(StrItems(GetArr(OnlyNode, <<"i", "n", "p", "u", "t">>).val), <<",">>) \o <<")", ";">>)

\* The text of a positional input as the call is to show it
QuotedInput(s) ==
    IF VALID_IDENTIFIER(s) THEN s
    ELSE <<"'">> \o Replace(s, <<"'">>, <<"\\", "'">>) \o <<"'">>

StringInputs ==
    /\ IsSome(GetArr(OnlyNode, <<"i", "n", "p", "u", "t">>))
    /\ \A i \in 1..Len(GetArr(OnlyNode, <<"i", "n", "p", "u", "t">>).val) : IsStr(GetArr(OnlyNode, <<"i", "n", "p", "u", "t">>).val[i])

\* C14: every element of a positional input array is rendered in the call, in
\* order; a string that is not a plain identifier is rendered single-quoted
\* with each ' escaped as \', and nothing else is escaped.
C14_QuotedInputs ==
    (Rendered(CallOp) /\ StringInputs) =>
        /\ out.ok
        /\ Contains(out.val,
                    <<"y", " ", "=", " ", "t", ".", "o", "p", "(">>
                        \o Join([i \in 1..Len(GetArr(OnlyNode, <<"i", "n", "p", "u", "t">>).val) |->
                                    QuotedInput(GetArr(OnlyNode, <<"i", "n", "p", "u", "t">>).val[i].v)], <<",">>)
                        \o <<")", ";">>)

\* The text of a positional input of any JSON type
RECURSIVE InputText(_)
InputText(x) ==
    CASE IsStr(x) -> QuotedInput(x.v)
      [] IsObj(x) -> <<"{">> \o Join([i \in 1..Len(x.v) |->
                                         x.v[i].k \o <<":">>
                                            \o (IF IsStr(x.v[i].v)
                                                THEN <<"'">> \o x.v[i].v.v \o <<"'">>
                                                ELSE InputText(x.v[i].v))], <<",">>) \o <<"}">>
      [] OTHER -> ToJson(x)

\* C15: a positional input that is not a string is not dropped: it is rendered
\* inside the call parentheses, an object as '{k:v,...}' with string values
\* single-quoted; as many arguments are rendered as the array has elements.
C15_NonStringInputs ==
    (Rendered(CallOp) /\ IsSome(GetArr(OnlyNode, <<"i", "n", "p", "u", "t">>))) =>
        /\ out.ok
        /\ Contains(out.val,
                    <<"y", " ", "=", " ", "t", ".", "o", "p", "(">>
                        \o Join([i \in 1..Len(GetArr(OnlyNode, <<"i", "n", "p", "u", "t">>).val) |->
                                    InputText(GetArr(OnlyNode, <<"i", "n", "p", "u", "t">>).val[i])], <<",">>)
                        \o <<")", ";">>)

\* C16: a graph whose `properties` field holds a non-empty map has that map
\* rendered inside the brace block as a key=value line ending in ';', before
\* the node lines.
C16_GraphProperties ==
    (/\ pc = "end" /\ HasOneNode
     /\ IsSome(GetObj(TheGraph, <<"p", "r", "o", "p", "e", "r", "t", "i", "e", "s">>))
     /\ GetObj(TheGraph, <<"p", "r", "o", "p", "e", "r", "t", "i", "e", "s">>).val # <<>>) =>
        /\ out.ok
        /\ \E i \in 1..Len(out.val) :
              /\ StartsWith(SubSeq(out.val, i, Len(out.val)),
                            Join(param_strings(GetObj(TheGraph, <<"p", "r", "o", "p", "e", "r", "t", "i", "e", "s">>).val), <<",">>) \o <<";">>)
              /\ Contains(SubSeq(out.val, i, Len(out.val)), <<"y", " ", "=", " ">>)

-----------------------------------------------------------------------------
(* Operations, conditionals, for loops and aliased nodes, checked on       *)
(* `SpecRender`.                                                           *)

\* The IR holds one operation
HasOneOp == IsSome(GetArr(ir, <<"o", "p", "s">>)) /\ Len(GetArr(ir, <<"o", "p", "s">>).val) = 1

TheOp == GetArr(ir, <<"o", "p", "s">>).val[1]

TheMetas == IF IsSome(GetObj(TheOp, <<"m", "e", "t", "a", "s">>)) THEN GetObj(TheOp, <<"m", "e", "t", "a", "s">>).val ELSE <<>>

\* C17: an operation object that carries `as` and `version` as fields of its
\* own (next to metas, inputs, outputs, configs) is closed with
\* '} as <alias>.version('<version>');', and neither is rendered in the meta
\* section.
C17_OpAliasFields ==
    (/\ pc = "end" /\ HasOneOp
     /\ IsSome(GetStr(TheOp, <<"a", "s">>)) /\ IsSome(GetStr(TheOp, <<"v", "e", "r", "s", "i", "o", "n">>))
     /\ ~MapHas(TheMetas, <<"a", "s">>)) =>
        /\ out.ok
        /\ EndsWith(out.val, <<"}", " ", "a", "s", " ">> \o GetStr(TheOp, <<"a", "s">>).val
                                \o <<".", "v", "e", "r", "s", "i", "o", "n", "(", "'">> \o GetStr(TheOp, <<"v", "e", "r", "s", "i", "o", "n">>).val \o <<"'", ")", ";">>)
        /\ ~Contains(out.val, <<"a", "s", "=">>)
        /\ ~Contains(out.val, <<"v", "e", "r", "s", "i", "o", "n", "=">>)

\* A branch as a bare node call: name, inputs, and its own version if any
BranchCall(branch) ==
    GetStr(branch, <<"o", "p", "_", "n", "a", "m", "e">>).val
        \o <<"(">>
        \o (IF IsSome(GetArr(branch, <<"i", "n", "p", "u", "t">>))
            THEN Join(StrItems(GetArr(branch, <<"i", "n", "p", "u", "t">>).val), <<",">>) ELSE <<>>)
        \o <<")">>
        \o (IF IsSome(GetStr(branch, <<"v", "e", "r", "s", "i", "o", "n">>))
            THEN <<".", "v", "e", "r", "s", "i", "o", "n", "(", "'">> \o GetStr(branch, <<"v", "e", "r", "s", "i", "o", "n">>).val \o <<"'", ")">> ELSE <<>>)

HasLoop == MapHas(OnlyNode.v, <<"f", "o", "r", "_", "l", "o", "o", "p">>)

\* C18: a condition node whose output equals its key renders as
\* '<key> = <condition> ? <true-branch call> : <false-branch call>;', each
\* branch a bare node call without any .as(...) suffix.
C18_ConditionNode ==
    (Rendered(ConditionOp) /\ ~HasLoop /\ ~Aliased) =>
        /\ CallAfter(TheKey) =
              Some(GetStr(OnlyNode, <<"c", "o", "n", "d", "i", "t", "i", "o", "n">>).val
                   \o <<" ", "?", " ">> \o BranchCall(Get(OnlyNode, <<"t", "r", "u", "e", "_", "b", "r", "a", "n", "c", "h">>).val)
                   \o <<" ", ":", " ">> \o BranchCall(Get(OnlyNode, <<"f", "a", "l", "s", "e", "_", "b", "r", "a", "n", "c", "h">>).val)
                   \o <<";">>)
        /\ ~Contains(out.val, <<".", "a", "s", "(">>)

\* result = x > 0 ? math.add(x,1) : math.sub(x).version('2');
C18_Witness ==
    /\ Rendered(ConditionOp) /\ ~HasLoop /\ ~Aliased
    /\ out.ok
    /\ Contains(out.val, <<"y", " ", "=", " ", "x", " ", ">", " ", "0", " ", "?", " ", "m", ".", "a", "d", "d", "(", "x", ",", "1", ")", " ", ":", " ", "m", ".", "s", "u", "b", "(", "x", ")", ".", "v", "e", "r", "s", "i", "o", "n", "(", "'", "2", "'", ")", ";">>)

\* What follows the last '.' of a name
AfterLastDot(s) ==
    LET dots == {i \in 1..Len(s) : s[i] = "."}
    IN  IF dots = {} THEN s
        ELSE SubSeq(s, (CHOOSE i \in dots : \A j \in dots : j <= i) + 1, Len(s))

OutputNames == StrItems(GetArr(OnlyNode, <<"o", "u", "t", "p", "u", "t">>).val)

\* The left-hand side of a node: its key, or its outputs' last segments
LeftHandSide ==
    IF Aliased THEN Join([i \in 1..Len(OutputNames) |-> AfterLastDot(OutputNames[i])], <<",">>)
    ELSE TheKey

TheLoop == Get(OnlyNode, <<"f", "o", "r", "_", "l", "o", "o", "p">>).val

LoopOutputs ==
    IF IsArr(Get(TheLoop, <<"o", "u", "t", "p", "u", "t", "s">>).val)
    THEN Join(StrItems(Get(TheLoop, <<"o", "u", "t", "p", "u", "t", "s">>).val.v), <<",", " ">>)
    ELSE Get(TheLoop, <<"o", "u", "t", "p", "u", "t", "s">>).val.v

RenderedLoop == pc = "end" /\ HasOneNode /\ HasLoop /\ ~MapHas(OnlyNode.v, <<"i", "n", "p", "u", "t">>)

RenderedKeyed ==
    /\ pc = "end" /\ HasOneNode
    /\ GetStr(OnlyNode, <<"o", "p", "_", "n", "a", "m", "e">>) \in {Some(PlainOp), Some(ConditionOp)}

IsConditional == ~HasLoop /\ GetStr(OnlyNode, <<"o", "p", "_", "n", "a", "m", "e">>) = Some(ConditionOp)

InvalidKey == Err(Message("Invalid identifier: {}", TheKey))

\* C20 (as the code has it): the left-hand side of a rendered node is the map
\* key when the comma-join of its outputs equals the key, and otherwise the
\* comma list of the outputs each reduced to its last dotted segment.  In that
\* aliasing case a generic node call or a for loop carries .as(<key>), the key
\* validated as an identifier; a conditional carries no .as(...) and its key is
\* not validated.
C20_LeftHandSide ==
    RenderedKeyed =>
        /\ out.ok => StartsWith(out.val, GraphOpen \o LeftHandSide \o <<" ", "=", " ">>)
        /\ (Aliased /\ ~IsConditional) =>
              IF VALID_IDENTIFIER(TheKey)
              THEN out.ok /\ Contains(out.val, <<".", "a", "s", "(">> \o TheKey \o <<")">>)
              ELSE out = InvalidKey
        /\ (Aliased /\ IsConditional) => out.ok /\ ~Contains(out.val, <<".", "a", "s", "(">>)
        /\ (~Aliased /\ ~HasLoop) => out.ok /\ ~Contains(out.val, <<".", "a", "s", "(">>)

\* Two dotted outputs under another key: the last segments and the alias
C20_Witness ==
    /\ RenderedKeyed /\ Aliased /\ ~IsConditional /\ ~HasLoop
    /\ Len(OutputNames) = 2
    /\ out.ok
    /\ StartsWith(out.val, GraphOpen \o <<"b", ",", "d", " ", "=", " ", "g", ".", "o", "p", "(", ")", ".", "a", "s", "(", "y", ")", ";">>)

\* C20 (as stated): in the aliasing case the node call carries .as(<key>),
\* whatever the node's shape
C20_AliasAlwaysCarried ==
    (RenderedKeyed /\ Aliased /\ VALID_IDENTIFIER(TheKey)) =>
        /\ out.ok
        /\ StartsWith(out.val, GraphOpen \o LeftHandSide \o <<" ", "=", " ">>)
        /\ Contains(out.val, <<".", "a", "s", "(">> \o TheKey \o <<")">>)

-----------------------------------------------------------------------------
(* check_id on its own: every short string over the characters the         *)
(* pattern tells apart.                                                    *)

\* Longest string check_id is applied to.
MaxIdLen == 3

\* One or two characters of each class of the pattern, and some of none
IdChars == {"a", "Z", "_", "-", "$", "%", "@", ".", "0", "9", " ", "'", "\n"}

RECURSIVE StringsUpTo(_)
StringsUpTo(n) ==
    IF n = 0 THEN {<<>>}
    ELSE LET shorter == StringsUpTo(n - 1)
         IN  shorter \cup {Append(s, c) : s \in {t \in shorter : Len(t) = n - 1}, c \in IdChars}

IdCandidates == StringsUpTo(MaxIdLen)

\* A caller about to validate one candidate
CheckIdInit ==
    /\ ast = Module(<<>>)
    /\ pc = "check_id"
    /\ idx = 1
    /\ vars = EmptyMap
    /\ graphs = <<>>
    /\ ops = <<>>
    /\ result = NotReturned
    /\ ir \in {VStr(s) : s \in IdCandidates}
    /\ opts = None
    /\ OPTIONS = DefaultOptions
    /\ out = NotReturned

\* check_id(value)
CheckId ==
    /\ pc = "check_id"
    /\ out' = check_id(ir.v)
    /\ pc' = "checked"
    /\ UNCHANGED <<ast, idx, vars, graphs, ops, result, ir, opts, OPTIONS>>

CheckIdNext == CheckId

SpecCheckId == CheckIdInit /\ [][CheckIdNext]_allvars

\* The pattern ^[A-Za-z_\-$%@][A-Za-z_\-$%@.0-9]*$ read as an automaton:
\* state "first" before the first character, "rest" after it, "dead" on a
\* character outside the class of its position
AsciiLetter(c) == c \in LowerLetters \cup UpperLetters
Punctuation(c) == c \in {"_", "-", "$", "%", "@"}
PatternStep(state, c) ==
    CASE state = "first" -> IF AsciiLetter(c) \/ Punctuation(c) THEN "rest" ELSE "dead"
      [] state = "rest" ->
            IF AsciiLetter(c) \/ Punctuation(c) \/ c = "." \/ c \in Digits THEN "rest"
            ELSE "dead"
      [] OTHER -> "dead"

RECURSIVE PatternRun(_, _, _)
PatternRun(state, s, i) ==
    IF i > Len(s) THEN state ELSE PatternRun(PatternStep(state, s[i]), s, i + 1)

MatchesPattern(s) == PatternRun("first", s, 1) = "rest"

Checked == pc = "checked"

(* C21: check_id accepts a string if and only if it matches                *)
(* ^[A-Za-z_\-$%@][A-Za-z_\-$%@.0-9]*$ and then returns the string itself; *)
(* it rejects the empty string and every string whose first character is a *)
(* digit or '.', and accepts '-', '$', '%', '@', '.' and digits after a    *)
(* valid first character.                                                  *)
C21_CheckId ==
    Checked =>
        /\ out.ok <=> MatchesPattern(ir.v)
        /\ out.ok => out.val = ir.v
        /\ ~out.ok => out = Err(Message("Invalid identifier: {}", ir.v))
        /\ ir.v = <<>> => ~out.ok
        /\ (ir.v # <<>> /\ ir.v[1] \in Digits \cup {"."}) => ~out.ok
        /\ (/\ ir.v # <<>>
            /\ ir.v[1] \in {"a", "Z", "_"}
            /\ \A i \in 2..Len(ir.v) : ir.v[i] \in {"-", "$", "%", "@", ".", "0", "9"})
           => out.ok

\* An identifier with '-' and a digit after its first character was accepted
C21_Witness ==
    /\ Checked
    /\ ir.v = <<"a", "-", "9">>
    /\ out = Ok(<<"a", "-", "9">>)

-----------------------------------------------------------------------------
(* Errors of the decompiler: IR with identifiers that do and do not match  *)
(* the pattern in every validated position, and malformed IR.              *)

GoodName == <<"n", ".", "1">>
BadName == <<"1", "n">>

\* A name in a position that may be left out: absent, valid, invalid
OptionalNames == {None, Some(GoodName), Some(BadName)}

RequiredNames == {GoodName, BadName}

OptField(key, name) == IF IsSome(name) THEN <<<<key, VStr(name.val)>>>> ELSE <<>>

BranchOf(name) == VObj(JsonObject(<<<<<<"o", "p", "_", "n", "a", "m", "e">>, VStr(name)>>>>))

\* The bodies of a node: an operation call, a call by reference, a loop
\* around an operation call, a conditional with two branches
NamedBodies ==
    {<<<<<<"o", "p", "_", "n", "a", "m", "e">>, VStr(name)>>>> : name \in RequiredNames}
    \cup {<<<<<<"r", "e", "f", "_", "g", "r", "a", "p", "h">>, VStr(name)>>>> : name \in RequiredNames}
    \cup {<<<<<<"o", "p", "_", "n", "a", "m", "e">>, VStr(name)>>,
            <<<<"f", "o", "r", "_", "l", "o", "o", "p">>, VObj(JsonObject(<<<<<<"i", "n", "p", "u", "t", "s">>, VStr(<<"x", "s">>)>>, <<<<"o", "u", "t", "p", "u", "t", "s">>, VArr(<<VStr(<<"x">>)>>)>>>>))>>>> :
            name \in RequiredNames}
    \cup {<<<<<<"o", "p", "_", "n", "a", "m", "e">>, VStr(ConditionOp)>>, <<<<"c", "o", "n", "d", "i", "t", "i", "o", "n">>, VStr(<<"c">>)>>,
            <<<<"t", "r", "u", "e", "_", "b", "r", "a", "n", "c", "h">>, BranchOf(t)>>, <<<<"f", "a", "l", "s", "e", "_", "b", "r", "a", "n", "c", "h">>, BranchOf(f)>>>> :
            t \in RequiredNames, f \in RequiredNames}

\* The outputs of the node: its key, or another name (the aliasing case)
OutputsOf(key, aliased) == VArr(<<VStr(IF aliased THEN <<"x">> ELSE key)>>)

\* {"graphs": [graph], "ops": [{"metas": {"as": ..}}]}: one graph with a
\* template, an alias and one node, and one operation with an alias
NamedIR(tpl, graph_as, key, aliased, body, op_as) ==
    VObj(JsonObject(<<
        <<<<"g", "r", "a", "p", "h", "s">>, VArr(<<VObj(JsonObject(
            OptField(<<"t", "e", "m", "p", "l", "a", "t", "e", "_", "g", "r", "a", "p", "h">>, tpl) \o OptField(<<"a", "s">>, graph_as)
            \o <<<<<<"n", "o", "d", "e", "s">>, VObj(JsonObject(<<<<key,
                    VObj(JsonObject(<<<<<<"o", "u", "t", "p", "u", "t">>, OutputsOf(key, aliased)>>>> \o body))>>>>))>>>>))>>)>>,
        <<<<"o", "p", "s">>, VArr(<<VObj(JsonObject(<<<<<<"m", "e", "t", "a", "s">>,
                    VObj(JsonObject(<<<<<<"d">>, VStr(<<"x">>)>>>> \o OptField(<<"a", "s">>, op_as)))>>>>))>>)>>>>))

NamedIRs ==
    {NamedIR(tpl, graph_as, key, aliased, body, op_as) :
        tpl \in OptionalNames, graph_as \in OptionalNames, key \in RequiredNames,
        aliased \in BOOLEAN, body \in NamedBodies, op_as \in OptionalNames}

\* Roots that are not JSON objects
OtherRootValues == {VNull, VBool(TRUE), VNum(1), VStr(<<"g", "r", "a", "p", "h", "s">>), VArr(<<>>), VArr(<<VObj(<<>>)>>)}

\* A well-formed branch, and a branch that names nothing to call
GoodBranch == BranchOf(<<"t">>)
BadBranches == {VObj(<<>>), VObj(JsonObject(<<<<<<"o", "p", "_", "n", "a", "m", "e">>, VNum(1)>>>>)), VStr(<<"t">>)}

GoodOutput == <<<<<<"o", "u", "t", "p", "u", "t">>, VArr(<<VStr(<<"y">>)>>)>>>>
GoodLoop == <<<<<<"f", "o", "r", "_", "l", "o", "o", "p">>, VObj(JsonObject(<<<<<<"i", "n", "p", "u", "t", "s">>, VStr(<<"x", "s">>)>>, <<<<"o", "u", "t", "p", "u", "t", "s">>, VArr(<<VStr(<<"x">>)>>)>>>>))>>>>
GoodCall == <<<<<<"o", "p", "_", "n", "a", "m", "e">>, VStr(<<"o", "p">>)>>>>

\* A condition node from its three parts, each of which may be left out
ConditionNode(condition, true_branch, false_branch) ==
    GoodOutput \o <<<<<<"o", "p", "_", "n", "a", "m", "e">>, VStr(ConditionOp)>>>>
    \o (IF IsSome(condition) THEN <<<<<<"c", "o", "n", "d", "i", "t", "i", "o", "n">>, condition.val>>>> ELSE <<>>)
    \o (IF IsSome(true_branch) THEN <<<<<<"t", "r", "u", "e", "_", "b", "r", "a", "n", "c", "h">>, true_branch.val>>>> ELSE <<>>)
    \o (IF IsSome(false_branch) THEN <<<<<<"f", "a", "l", "s", "e", "_", "b", "r", "a", "n", "c", "h">>, false_branch.val>>>> ELSE <<>>)

\* The fields of a node that lacks something it needs
MalformedNodes ==
    {GoodCall,
     GoodCall \o <<<<<<"o", "u", "t", "p", "u", "t">>, VStr(<<"y">>)>>>>,
     GoodCall \o <<<<<<"o", "u", "t", "p", "u", "t">>, VNull>>>>,
     GoodCall \o GoodLoop,
     GoodOutput,
     GoodOutput \o <<<<<<"o", "p", "_", "n", "a", "m", "e">>, VNum(1)>>>>,
     GoodOutput \o <<<<<<"r", "e", "f", "_", "g", "r", "a", "p", "h">>, VBool(TRUE)>>>>,
     GoodOutput \o GoodLoop}
    \cup ({ConditionNode(condition, true_branch, false_branch) :
            condition \in {None, Some(VNum(1)), Some(VStr(<<"c">>))},
            true_branch \in {None, Some(GoodBranch)} \cup {Some(b) : b \in BadBranches},
            false_branch \in {None, Some(GoodBranch)} \cup {Some(b) : b \in BadBranches}}
      \ {ConditionNode(Some(VStr(<<"c">>)), Some(GoodBranch), Some(GoodBranch))})

\* The same node in a graph, in the graph of an operation, and at top level
MalformedIRs ==
    OtherRootValues
    \cup {KeyedGraphIR(<<>>, <<"y">>, VObj(JsonObject(node))) : node \in MalformedNodes}
    \cup {VObj(JsonObject(<<<<<<"n", "o", "d", "e", "s">>, VObj(JsonObject(<<<<<<"y">>, VObj(JsonObject(node))>>>>))>>>>)) :
            node \in MalformedNodes}

FailFastInputs == NamedIRs \cup MalformedIRs

\* A caller about to decompile one of them
FailFastInit ==
    /\ ast = Module(<<>>)
    /\ pc = "serialized"
    /\ idx = 1
    /\ vars = EmptyMap
    /\ graphs = <<>>
    /\ ops = <<>>
    /\ result = NotReturned
    /\ ir \in FailFastInputs
    /\ opts \in RenderOptionSets
    /\ OPTIONS = DefaultOptions
    /\ out = NotReturned

FailFastNext == DecompileFromData

SpecFailFast == FailFastInit /\ [][FailFastNext]_allvars

\* decompile_from_data has returned for an IR with a graph and an operation
Named == pc = "end" /\ IsObj(ir) /\ MapHas(ir.v, <<"o", "p", "s">>) /\ HasOneNode

TheOpAlias == GetStr(Get(GetArr(ir, <<"o", "p", "s">>).val[1], <<"m", "e", "t", "a", "s">>).val, <<"a", "s">>)

NameOf(node) ==
    IF IsSome(GetStr(node, <<"r", "e", "f", "_", "g", "r", "a", "p", "h">>)) THEN GetStr(node, <<"r", "e", "f", "_", "g", "r", "a", "p", "h">>).val
    ELSE GetStr(node, <<"o", "p", "_", "n", "a", "m", "e">>).val

OptSet(name) == IF IsSome(name) THEN {name.val} ELSE {}

\* The names of the graph, the operation and the calls
BlockNames ==
    OptSet(GetStr(TheGraph, <<"t", "e", "m", "p", "l", "a", "t", "e", "_", "g", "r", "a", "p", "h">>)) \cup OptSet(GetStr(TheGraph, <<"a", "s">>))
    \cup OptSet(TheOpAlias)
    \cup (IF IsConditional
          THEN {NameOf(Get(OnlyNode, <<"t", "r", "u", "e", "_", "b", "r", "a", "n", "c", "h">>).val), NameOf(Get(OnlyNode, <<"f", "a", "l", "s", "e", "_", "b", "r", "a", "n", "c", "h">>).val)}
          ELSE {NameOf(OnlyNode)})

\* The identifiers the decompiler validates: the names, and the key of a
\* node that is a loop or a generic call with outputs other than the key
ValidatedNames ==
    BlockNames \cup (IF ~IsConditional /\ (Aliased \/ HasLoop) THEN {TheKey} ELSE {})

InvalidIdentifier(names) ==
    /\ ~out.ok
    /\ DOMAIN out = {"ok", "err"}
    /\ out.err.msg = "Invalid identifier: {}"
    /\ out.err.arg \in names
    /\ ~MatchesPattern(out.err.arg)

(* C22 (as the code has it): decompilation is fail-fast on identifiers.    *)
(* When the graph alias, the template graph name, the op_name or ref_graph *)
(* of a node call or of a branch, the alias of an operation, or the key of *)
(* an aliased generic call or of a for loop does not match the identifier  *)
(* pattern, decompile_from_data returns the error "Invalid identifier"     *)
(* naming one such identifier and no text, whatever else the IR holds;     *)
(* when all of them match, it returns text.  The key of a conditional node *)
(* is not validated.                                                       *)
C22_FailFastIdentifiers ==
    Named =>
        IF \E name \in ValidatedNames : ~MatchesPattern(name)
        THEN InvalidIdentifier(ValidatedNames)
        ELSE out.ok

\* Only the alias of the operation, rendered last, is invalid: nothing of the
\* graph rendered before it is returned
C22_Witness ==
    /\ Named
    /\ TheOpAlias = Some(BadName)
    /\ \A name \in ValidatedNames \ {BadName} : MatchesPattern(name)
    /\ TheKey = GoodName
    /\ out = Err(Message("Invalid identifier: {}", BadName))

\* C22 (as stated): an invalid node alias key, like any other invalid
\* identifier, makes decompile_from_data return "Invalid identifier" and no text.
C22_EveryAliasKeyValidated ==
    (Named /\ \E name \in BlockNames \cup (IF Aliased THEN {TheKey} ELSE {}) : ~MatchesPattern(name))
        => InvalidIdentifier(BlockNames \cup {TheKey})

\* decompile_from_data has returned for an IR whose only node sits in the
\* only graph, or at top level
InGraph == IsObj(ir) /\ HasOneNode
AtTopLevel == IsObj(ir) /\ IsSome(GetObj(ir, <<"n", "o", "d", "e", "s">>)) /\ Len(GetObj(ir, <<"n", "o", "d", "e", "s">>).val) = 1

SoleNode == IF InGraph THEN OnlyNode ELSE GetObj(ir, <<"n", "o", "d", "e", "s">>).val[1].v
SoleKey == IF InGraph THEN TheKey ELSE GetObj(ir, <<"n", "o", "d", "e", "s">>).val[1].k

\* What the node lacks
NoOutputArray(node) == IsNone(GetArr(node, <<"o", "u", "t", "p", "u", "t">>))
Nameless(node) == IsNone(GetStr(node, <<"o", "p", "_", "n", "a", "m", "e">>)) /\ IsNone(GetStr(node, <<"r", "e", "f", "_", "g", "r", "a", "p", "h">>))
LoopShaped(node) ==
    /\ IsSome(GetObj(node, <<"f", "o", "r", "_", "l", "o", "o", "p">>))
    /\ MapHas(GetObj(node, <<"f", "o", "r", "_", "l", "o", "o", "p">>).val, <<"i", "n", "p", "u", "t", "s">>)
    /\ MapHas(GetObj(node, <<"f", "o", "r", "_", "l", "o", "o", "p">>).val, <<"o", "u", "t", "p", "u", "t", "s">>)
ConditionShaped(node) == ~LoopShaped(node) /\ GetStr(node, <<"o", "p", "_", "n", "a", "m", "e">>) = Some(ConditionOp)
NoCondition(node) == IsNone(GetStr(node, <<"c", "o", "n", "d", "i", "t", "i", "o", "n">>))
NoBranch(node, branch) == IsNone(Get(node, branch))
NamelessBranch(node, branch) == IsSome(Get(node, branch)) /\ Nameless(Get(node, branch).val)

\* An error and nothing else, its message one of the decompiler's about `key`
Refused(messages, key) ==
    /\ ~out.ok
    /\ DOMAIN out = {"ok", "err"}
    /\ out.err \in {Message(m, key) : m \in messages}

NodeMessages ==
    {"Node {} has no output", "Node {} has no op_name or ref_graph",
     "Condition node {} must have string condition",
     "Condition node {} must have true branch", "Condition node {} must have false branch"}

(* C23: decompile_from_data returns an error and no text when the IR root  *)
(* is not a JSON object, when a node has no `output` array, when a node    *)
(* rendered as a call (generic or in a loop) or as a branch has neither a  *)
(* string op_name nor a string ref_graph, and when a condition node lacks  *)
(* a string `condition`, a `true_branch` or a `false_branch`.              *)
C23_MalformedIR ==
    pc = "end" =>
        /\ ~IsObj(ir) => Refused({"Decompile input must be a JSON object"}, <<>>)
        /\ (InGraph \/ AtTopLevel) =>
            /\ NoOutputArray(SoleNode) => Refused({"Node {} has no output"}, SoleKey)
            /\ (~ConditionShaped(SoleNode) /\ Nameless(SoleNode)) => Refused(NodeMessages, SoleKey)
            /\ (ConditionShaped(SoleNode) /\
                  (\/ NoCondition(SoleNode)
                   \/ NoBranch(SoleNode, <<"t", "r", "u", "e", "_", "b", "r", "a", "n", "c", "h">>) \/ NoBranch(SoleNode, <<"f", "a", "l", "s", "e", "_", "b", "r", "a", "n", "c", "h">>)
                   \/ NamelessBranch(SoleNode, <<"t", "r", "u", "e", "_", "b", "r", "a", "n", "c", "h">>)
                   \/ NamelessBranch(SoleNode, <<"f", "a", "l", "s", "e", "_", "b", "r", "a", "n", "c", "h">>)))
               => Refused(NodeMessages, SoleKey)

\* A condition node in a graph that lacks nothing but its false branch
C23_Witness ==
    /\ pc = "end"
    /\ InGraph
    /\ ConditionShaped(SoleNode)
    /\ ~NoOutputArray(SoleNode)
    /\ ~NoCondition(SoleNode)
    /\ ~NoBranch(SoleNode, <<"t", "r", "u", "e", "_", "b", "r", "a", "n", "c", "h">>) /\ ~NamelessBranch(SoleNode, <<"t", "r", "u", "e", "_", "b", "r", "a", "n", "c", "h">>)
    /\ NoBranch(SoleNode, <<"f", "a", "l", "s", "e", "_", "b", "r", "a", "n", "c", "h">>)
    /\ out = Err(Message("Condition node {} must have false branch", <<"y">>))

-----------------------------------------------------------------------------
(* Concurrent invocations of decompile_from_data.  OPTIONS is declared in  *)
(* thread_local!: every thread has a cell of its own.  An invocation runs  *)
(* on one thread from its first statement to its return; the threads       *)
(* interleave between the places where an invocation reads the cell.  In   *)
(* this specification every variable of an invocation is a function of the *)
(* thread that runs it.                                                    *)

Threads == {1, 2}

\* Invocations a thread makes one after the other.
MaxCalls == 2

\* A cell that every thread of the process would use
SharedCell(thread) == 0

\* thread_local!: the cell a thread's OPTIONS.with(..) gives access to
Cell(thread) == thread

\* Two graphs and an operation; the node has n inputs
ConcurrentIR(n) ==
    VObj(JsonObject(<<
        <<<<"g", "r", "a", "p", "h", "s">>, VArr(<<
            VObj(JsonObject(<<<<<<"a", "s">>, VStr(<<"g">>)>>,
                <<<<"n", "o", "d", "e", "s">>, VObj(JsonObject(<<<<<<"y">>, CallNode(<<<<<<"o", "p", "_", "n", "a", "m", "e">>, VStr(CallOp)>>>>,
                                                    VArr([i \in 1..n |-> VStr(<<Letters[i]>>)]))>>>>))>>>>)),
            VObj(JsonObject(<<<<<<"p", "r", "o", "p", "e", "r", "t", "y">>, VObj(<<Entry(<<"p">>, VNum(1))>>)>>>>))>>)>>,
        <<<<"o", "p", "s">>, VArr(<<VObj(JsonObject(<<<<<<"m", "e", "t", "a", "s">>, VObj(<<Entry(<<"d">>, VStr(<<"x">>))>>)>>>>))>>)>>>>))

ConcurrentIRs == {ConcurrentIR(0), ConcurrentIR(2)}

ConcurrentInit ==
    /\ ast = Module(<<>>)
    /\ pc = [t \in Threads |-> "idle"]
    /\ idx = [t \in Threads |-> [graph |-> 1, calls |-> 0]]
    /\ vars = EmptyMap
    /\ graphs = <<>>
    /\ ops = <<>>
    /\ result = [t \in Threads |-> <<>>]
    /\ ir = [t \in Threads |-> VNull]
    /\ opts = [t \in Threads |-> None]
    /\ OPTIONS = [c \in {Cell(t) : t \in Threads} |-> DefaultOptions]
    /\ out = [t \in Threads |-> NotReturned]

\* std_data.get("graphs") as the loop of decompile_std sees it
GraphsArray(std_data) ==
    IF IsSome(GetArr(std_data, <<"g", "r", "a", "p", "h", "s">>)) THEN GetArr(std_data, <<"g", "r", "a", "p", "h", "s">>).val ELSE <<>>

\* decompile_from_data up to the first graph: the options are stored in the
\* thread's cell, the content is unescaped if they ask for it, the buffer is empty
Enter(t) ==
    /\ pc[t] = "idle"
    /\ idx[t].calls < MaxCalls
    /\ \E content \in ConcurrentIRs, options \in RenderOptionSets :
        /\ opts' = [opts EXCEPT ![t] = options]
        /\ OPTIONS' = [OPTIONS EXCEPT ![Cell(t)] = unwrap_or_default(options)]
        /\ ir' = [ir EXCEPT ![t] = IF unwrap_or_default(options).unescape
                                   THEN unescape_dfs(content) ELSE content]
        /\ out' = [out EXCEPT ![t] =
                      IF ~IsObj(content) THEN Err(Message("Decompile input must be a JSON object", <<>>))
                      ELSE IF IsSome(Get(content, <<"g", "r", "a", "p", "h", "s">>)) /\ IsNone(GetArr(content, <<"g", "r", "a", "p", "h", "s">>))
                      THEN Err(Message("Graphs must be an array", <<>>))
                      ELSE Ok(<<>>)]
    /\ pc' = [pc EXCEPT ![t] = "graphs"]
    /\ idx' = [idx EXCEPT ![t] = [graph |-> 1, calls |-> idx[t].calls + 1]]
    /\ result' = [result EXCEPT ![t] = <<>>]
    /\ UNCHANGED <<ast, vars, graphs, ops>>

\* decompile_std: one turn of the loop over the graphs; decompile_graph reads
\* the thread's cell
RenderGraph(t) ==
    /\ pc[t] = "graphs"
    /\ out[t].ok
    /\ idx[t].graph <= Len(GraphsArray(ir[t]))
    /\ out' = [out EXCEPT ![t] =
                  separated(decompile_graph(out[t].val, GraphsArray(ir[t])[idx[t].graph], OPTIONS[Cell(t)]),
                            idx[t].graph, Len(GraphsArray(ir[t])))]
    /\ result' = [result EXCEPT ![t] = Append(result[t], OPTIONS[Cell(t)])]
    /\ idx' = [idx EXCEPT ![t].graph = idx[t].graph + 1]
    /\ UNCHANGED <<ast, pc, vars, graphs, ops, ir, opts, OPTIONS>>

\* decompile_std after the graphs: the operations and the nodes, which read
\* the thread's cell, and the return
Return(t) ==
    /\ pc[t] = "graphs"
    /\ ~out[t].ok \/ idx[t].graph > Len(GraphsArray(ir[t]))
    /\ out' = [out EXCEPT ![t] = std_nodes(std_ops(out[t], ir[t], OPTIONS[Cell(t)]), ir[t], OPTIONS[Cell(t)])]
    /\ result' = [result EXCEPT ![t] = Append(result[t], OPTIONS[Cell(t)])]
    /\ pc' = [pc EXCEPT ![t] = "idle"]
    /\ UNCHANGED <<ast, idx, vars, graphs, ops, ir, opts, OPTIONS>>

ConcurrentNext == \E t \in Threads : Enter(t) \/ RenderGraph(t) \/ Return(t)

SpecConcurrent == ConcurrentInit /\ [][ConcurrentNext]_allvars

InFlight(t) == pc[t] = "graphs"
HasReturned(t) == pc[t] = "idle" /\ idx[t].calls > 0

(* C24 (as the code has it): the configuration cell is thread-local, so    *)
(* invocations running concurrently on different threads with different    *)
(* option sets do not disturb each other: every read of the cell by an     *)
(* invocation gives the options passed to that invocation, and what it     *)
(* returns is what it returns when it runs alone.                          *)
C24_OwnOptions ==
    \A t \in Threads :
        /\ \A i \in 1..Len(result[t]) : result[t][i] = unwrap_or_default(opts[t])
        /\ HasReturned(t) => out[t] = decompile_from_data(ir[t], unwrap_or_default(opts[t]))

\* One invocation has returned what it renders alone although the other
\* thread stored other options while it was in flight
C24_Witness ==
    /\ HasReturned(1)
    /\ Len(result[1]) = 3
    /\ out[1] = decompile_from_data(ir[1], Compact)
    /\ opts[1] = Some(Compact)
    /\ InFlight(2)
    /\ Len(result[2]) = 1
    /\ opts[2] = Some(Indented)
    /\ OPTIONS[Cell(2)] = Indented

\* C24 (as stated): the cell is shared by the invocations of a process, so
\* two invocations in flight consult the same options, those stored last.
C24_SharedCell ==
    \A t1 \in Threads, t2 \in Threads :
        (InFlight(t1) /\ InFlight(t2)) => OPTIONS[Cell(t1)] = OPTIONS[Cell(t2)]

-----------------------------------------------------------------------------
(* Single-step substitution (compiler.rs, resolve_variable_references and  *)
(* process_var_def), on the compilation pipeline.                          *)

\* The properties of a graph block: its attribute definitions that are not nodes
PropertyIndexes(blk) ==
    {i \in 1..Len(blk.children) :
        blk.children[i].kind = "AttrDef" /\ blk.children[i].value.kind # "NodeBlock"}

\* No later property of the block has the name of property i
LastProperty(blk, i) ==
    \A j \in PropertyIndexes(blk) :
        j > i => blk.children[j].name.name # blk.children[i].name.name

\* The graph the loop has just pushed
LastGraph == graphs[Len(graphs)]

\* The value a property written as a name was given
PropertyValue(blk, i) == LastGraph.properties.val[blk.children[i].name.name]

\* A string that names a key of the table
IsReference(value, table) == IsStr(value) /\ value.v \in DOMAIN table

(* C28: variable substitution is single-step. A variable block stores each *)
(* attribute's converted value as written, also when that value is the     *)
(* name of a variable defined before; a graph property written as the name *)
(* of a variable receives the stored value verbatim, also when the stored  *)
(* value is itself the name of a variable.                                 *)
C28_SingleStepSubstitution ==
    /\ AfterStatement("VarDef") =>
          \A i \in AttrIndexes(LastStatement) :
              LastWriteOfKey(LastStatement, i) =>
                  vars[ExpectedKey(LastStatement, i)]
                      = convert_ast_to_value(LastStatement.children[i].value)
    /\ AfterStatement("GraphDef") =>
          \A i \in PropertyIndexes(LastStatement) :
              (/\ LastProperty(LastStatement, i)
               /\ IsReference(convert_ast_to_value(LastStatement.children[i].value), vars)) =>
                  PropertyValue(LastStatement, i)
                      = vars[convert_ast_to_value(LastStatement.children[i].value).v]

\* var {n = "x"; ...} as c; var {n = c.n; ...}; graph {p = n; ...}: the second block
\* stored n = "c.n" although c.n was defined, the property p received "c.n", and
\* resolving p once more gives "x"
C28_Witness ==
    /\ AfterStatement("GraphDef")
    /\ ast = Module(<<VarA, VarB, GraphA>>)
    /\ vars[sN] = VStr(sCN)
    /\ vars[sCN] = VStr(sX)
    /\ LastGraph.properties.val[sP] = VStr(sCN)
    /\ resolve_variable_references(LastGraph.properties.val[sP], vars) = VStr(sX)
    /\ resolve_variable_references(resolve_variable_references(VStr(sN), vars), vars)
          # resolve_variable_references(VStr(sN), vars)

-----------------------------------------------------------------------------
(* The node map of one graph block (compiler.rs, convert_graph_def): every *)
(* sequence of up to MaxNodeDefs node definitions, written either as       *)
(* `outputs = op;` or as the attribute form `name = op;`.                  *)

MaxNodeDefs == 3

sNode0 == NodePrefix \o <<"0">>
sNode1 == NodePrefix \o <<"1">>

BareBlock == NodeBlock(sOp, None, None)

OutputLists ==
    {<<>>, <<Symbol(sA)>>, <<Symbol(sB)>>, <<Symbol(sA), Symbol(sB)>>,
     <<Symbol(sNode0)>>, <<Symbol(sNode1)>>}

NodeDefinitions ==
    {NodeDef(outs, BareBlock) : outs \in OutputLists}
        \cup {AttrDef(name, BareBlock) : name \in {sA, sNode0}}

NodeDefLists == UNION {[1..n -> NodeDefinitions] : n \in 0..MaxNodeDefs}

\* compile_module has reached a graph block
NodesInit ==
    /\ ast \in {GraphDef(children, None, None, None, None) : children \in NodeDefLists}
    /\ pc = "graph"
    /\ idx = 1
    /\ vars = EmptyMap
    /\ graphs = <<>>
    /\ ops = <<>>
    /\ result = NotReturned
    /\ ir = VNull
    /\ opts = None
    /\ OPTIONS = DefaultOptions
    /\ out = NotReturned

\* graphs.push(self.convert_graph_def(graph_def, &vars)?)
ConvertNodes ==
    /\ pc = "graph"
    /\ graphs' = Append(graphs, convert_graph_def(ast, vars))
    /\ pc' = "converted"
    /\ UNCHANGED <<ast, idx, vars, ops, result, ir, opts, OPTIONS, out>>

NodesNext == ConvertNodes

SpecNodes == NodesInit /\ [][NodesNext]_allvars

\* The number of entries of a graph's node map
NodeCount(g) == IF IsSome(g.nodes) THEN Cardinality(DOMAIN g.nodes.val) ELSE 0

\* The key the definition at position i is written under: its first output
\* name, or 'node_<k>' for the k entries the definitions before it left
RECURSIVE NodeKeyAt(_, _)
NodeKeyAt(children, i) ==
    IF children[i].kind = "AttrDef" THEN children[i].name.name
    ELSE IF children[i].outputs # <<>> THEN children[i].outputs[1].name
    ELSE NodePrefix \o NatToString(Cardinality({NodeKeyAt(children, j) : j \in 1..(i - 1)}))

(* C29: within one graph block every node definition gets its own entry in *)
(* the node map: the map has as many entries as the block has node         *)
(* definitions, and no two definitions are written under the same key.     *)
C29_EntryPerNodeDefinition ==
    pc = "converted" =>
        /\ NodeCount(graphs[1]) = Len(ast.children)
        /\ \A i \in 1..Len(ast.children), j \in 1..Len(ast.children) :
              i # j => NodeKeyAt(ast.children, i) # NodeKeyAt(ast.children, j)

-----------------------------------------------------------------------------
(* The for loop in compact mode (decompiler.rs, NodeDecompiler::for_loop   *)
(* and indent), on the rendered shapes.                                    *)

Whitespace == {" ", "\n", "\t"}

\* The text is found in the output right after a whitespace character
AfterWhitespace(text) == \E w \in Whitespace : Contains(out.val, <<w>> \o text)

(* C30: in compact mode (indent = 0) a for_loop node still renders 'for'   *)
(* and 'if' preceded by whitespace:                                        *)
(* [<node-call> for <outputs> in <inputs> if <condition>];                 *)
C30_CompactForLoop ==
    (RenderedLoop /\ OPTIONS.indent = 0 /\ VALID_IDENTIFIER(TheKey)) =>
        /\ out.ok
        /\ AfterWhitespace(<<"f", "o", "r", " ">> \o LoopOutputs \o <<" ", "i", "n", " ">>
                               \o GetStr(TheLoop, <<"i", "n", "p", "u", "t", "s">>).val)
        /\ IsSome(GetStr(TheLoop, <<"c", "o", "n", "d", "i", "t", "i", "o", "n">>)) =>
              AfterWhitespace(<<"i", "f", " ">> \o GetStr(TheLoop, <<"c", "o", "n", "d", "i", "t", "i", "o", "n">>).val \o <<"]", ";">>)

-----------------------------------------------------------------------------
(* The formatter (src/src/format.rs).  An AST node the formatter walks     *)
(* carries its Position; of a Position the formatter reads line and        *)
(* end_line only.  Formatter.cur_col is left out: format_* write it, only  *)
(* need_line reads it, and nothing calls need_line.                        *)

Position(line, end_line) == [line |-> line, end_line |-> end_line]

\* A node with its source span
At(node, line, end_line) ==
    [field \in (DOMAIN node) \cup {"position"} |->
        IF field = "position" THEN Position(line, end_line) ELSE node[field]]

SetStatement(items) == [kind |-> "SetStatement", items |-> items]
\* alias: Option<Symbol>
ImportItem(path, alias) == [kind |-> "ImportItem", path |-> Symbol(path), alias |-> alias]

\* IndentBuffer::new
IndentBuffer(indent_size, begin_indent) ==
    [buffer |-> <<>>, indent_size |-> indent_size, current_indent |-> begin_indent]

\* IndentBuffer::write
write(b, s) == [b EXCEPT !.buffer = @ \o s]

\* IndentBuffer::write_indent
write_indent(b, s) ==
    IF b.indent_size > 0 /\ b.current_indent > 0
    THEN write(write(b, Spaces(b.current_indent)), s)
    ELSE write(b, s)

\* The newline writeln and writeln_indent end with
end_line_if_indented(b) == IF b.indent_size > 0 THEN write(b, <<"\n">>) ELSE b

\* IndentBuffer::writeln
writeln(b, s) == end_line_if_indented(write(b, s))

\* IndentBuffer::writeln_indent
writeln_indent(b, s) == end_line_if_indented(write_indent(b, s))

\* IndentBuffer::indent
buffer_indent(b) == [b EXCEPT !.current_indent = @ + b.indent_size]

\* IndentBuffer::dedent
dedent(b) ==
    IF b.current_indent >= b.indent_size
    THEN [b EXCEPT !.current_indent = @ - b.indent_size]
    ELSE b

\* Formatter::new
Formatter(indent_size, max_col) == [indent |-> indent_size, max_col |-> max_col]

\* Formatter::need_line_for_items
need_line_for_items(items) == Len(items) > 3

\* Formatter::value_length
value_length(node) ==
    CASE node.kind \in {"StringLiteral", "MultiLineStringLiteral", "DateLiteral"} -> Len(node.value)
      [] node.kind = "Symbol" -> Len(node.name)
      [] node.kind = "NullLiteral" -> 4
      [] OTHER -> 0

\* Formatter::need_line (never called)
need_line(f, cur_col, node) == (cur_col + value_length(node) > f.max_col) /\ f.indent > 0

\* Formatter::get_inline_comment
get_inline_comment(index, cur_end, children) ==
    IF index + 1 <= Len(children)
          /\ children[index + 1].kind = "Comment"
          /\ children[index + 1].position.line = cur_end
    THEN Some(children[index + 1].value)
    ELSE None

\* Formatter::format_comment
format_comment(f, comment, begin_indent) ==
    write_indent(IndentBuffer(f.indent, begin_indent), comment.value \o <<"\n">>).buffer

\* Formatter::format_import, the items from the index-th on
RECURSIVE import_items(_, _, _)
import_items(b, items, index) ==
    IF index > Len(items) THEN b
    ELSE import_items(
            write(write(write(b, items[index].path.name),
                        IF IsSome(items[index].alias)
                        THEN <<" ", "a", "s", " ">> \o items[index].alias.val.name ELSE <<>>),
                  IF index < Len(items) THEN <<",", " ">> ELSE <<>>),
            items, index + 1)

\* Formatter::format_import
format_import(f, import, begin_indent) ==
    write(import_items(write_indent(IndentBuffer(f.indent, begin_indent), <<"i", "m", "p", "o", "r", "t", " ">>),
                       import.items, 1),
          <<";">>).buffer

RECURSIVE format_node(_, _, _)
RECURSIVE Formatter_format_value(_, _, _)
RECURSIVE format_sequence(_, _, _, _, _)
RECURSIVE sequence_items(_, _, _, _, _, _)
RECURSIVE format_as_item(_, _, _)
RECURSIVE format_brace(_, _, _, _, _)
RECURSIVE format_list_with_comment(_, _, _)
RECURSIVE list_children(_, _, _, _, _)

\* FormatItem::format_as_item / format_as_dict_item, for a DictItem and for a node
format_as_item(f, item, begin_indent) ==
    IF item.kind = "DictItem"
    THEN Formatter_format_value(f, item.key, begin_indent) \o <<":", " ">>
            \o Formatter_format_value(f, item.value, begin_indent)
    ELSE Formatter_format_value(f, item, begin_indent)

\* Formatter::format_sequence, the loop over the items from the index-th on
sequence_items(f, b, items, index, begin_indent, new_line) ==
    IF index > Len(items) THEN b
    ELSE sequence_items(f,
            (IF index < Len(items)
             THEN IF new_line
                  THEN writeln(write_indent(b, format_as_item(f, items[index], begin_indent)), <<",">>)
                  ELSE write(write(b, format_as_item(f, items[index], begin_indent)), <<",", " ">>)
             ELSE IF new_line
                  THEN write_indent(b, format_as_item(f, items[index], begin_indent))
                  ELSE write(b, format_as_item(f, items[index], begin_indent))),
            items, index + 1, begin_indent, new_line)

\* The end of format_sequence: dedent and the closing delimiter
sequence_end(b, end, new_line) ==
    IF new_line THEN write_indent(writeln(dedent(b), <<>>), end)
    ELSE write(dedent(b), end)

\* Formatter::format_sequence (start and end tell a dict from a set, so
\* is_dict is read off the items)
format_sequence(f, start, end, items, begin_indent) ==
    IF items = <<>> THEN start \o end
    ELSE sequence_end(
            sequence_items(f,
                buffer_indent(IF need_line_for_items(items)
                              THEN writeln(IndentBuffer(f.indent, begin_indent), start)
                              ELSE write(IndentBuffer(f.indent, begin_indent), start)),
                items, 1, begin_indent, need_line_for_items(items)),
            end, need_line_for_items(items)).buffer

\* Formatter::format_dict_statement, format_list_statement,
\* format_tuple_statement, format_set_statement
format_dict_statement(f, node, begin_indent) ==
    format_sequence(f, <<"{">>, <<"}">>, node.items, begin_indent)
format_list_statement(f, node, begin_indent) ==
    format_sequence(f, <<"[">>, <<"]">>, node.items, begin_indent)
format_tuple_statement(f, node, begin_indent) ==
    format_sequence(f, <<"(">>, <<")">>, node.items, begin_indent)
format_set_statement(f, node, begin_indent) ==
    format_sequence(f, <<"{">>, <<"}">>, node.items, begin_indent)

\* Formatter::format_value (the literals that carry a raw text are not modelled)
Formatter_format_value(f, node, begin_indent) ==
    CASE node.kind \in {"StringLiteral", "MultiLineStringLiteral", "DateLiteral"} -> node.value
      [] node.kind = "Symbol" -> node.name
      [] node.kind = "NullLiteral" -> <<"n", "u", "l", "l">>
      [] node.kind = "DictStatement" -> format_dict_statement(f, node, begin_indent)
      [] node.kind = "ListStatement" -> format_list_statement(f, node, begin_indent)
      [] node.kind = "TupleStatement" -> format_tuple_statement(f, node, begin_indent)
      [] node.kind = "SetStatement" -> format_set_statement(f, node, begin_indent)
      [] OTHER -> format_node(f, node, begin_indent)

\* Formatter::format_attr_def
format_attr_def(f, attr, begin_indent) ==
    write(write_indent(IndentBuffer(f.indent, begin_indent), attr.name.name \o <<" ", "=", " ">>),
          Formatter_format_value(f, attr.value, begin_indent) \o <<";">>).buffer

\* format_brace: the body is written as it is when it ends a line, and with writeln otherwise
brace_body(b, body) ==
    IF body # <<>> /\ body[Len(body)] = "\n" THEN write(b, body) ELSE writeln(b, body)

\* format_brace: the header line, after a separating line unless the block opens the text
brace_open(f, name, begin_indent, is_first_line) ==
    writeln_indent(IF is_first_line THEN IndentBuffer(f.indent, begin_indent)
                   ELSE writeln(IndentBuffer(f.indent, begin_indent), <<>>),
                   name \o <<" ", "{">>)

\* format_brace: the children one level deeper
brace_children(f, b, children) ==
    IF children = <<>> THEN b
    ELSE dedent(brace_body(buffer_indent(b),
                           format_list_with_comment(f, children, buffer_indent(b).current_indent)))

\* Formatter::format_brace
format_brace(f, name, children, begin_indent, is_first_line) ==
    write_indent(brace_children(f, brace_open(f, name, begin_indent, is_first_line), children),
                 <<"}">>).buffer

\* Formatter::format_var_def
format_var_def(f, var, begin_indent) ==
    format_brace(f, <<"v", "a", "r">>, var.children, begin_indent, var.position.line = 1)
        \o (IF IsSome(var.alias) THEN <<" ", "a", "s", " ">> \o var.alias.val.name \o <<";">> ELSE <<";">>)

\* Formatter::format_module
format_module(f, module, begin_indent) ==
    format_list_with_comment(f, module.children, begin_indent)

\* Formatter::format_node (the variants the model builds)
format_node(f, node, begin_indent) ==
    CASE node.kind = "Module" -> format_module(f, node, begin_indent)
      [] node.kind = "Comment" -> format_comment(f, node, begin_indent)
      [] node.kind = "Symbol" -> node.name
      [] node.kind \in {"StringLiteral", "MultiLineStringLiteral", "DateLiteral"} -> node.value
      [] node.kind = "NullLiteral" -> <<"n", "u", "l", "l">>
      [] node.kind = "Import" -> format_import(f, node, begin_indent)
      [] node.kind = "AttrDef" -> format_attr_def(f, node, begin_indent)
      [] node.kind = "VarDef" -> format_var_def(f, node, begin_indent)
      [] node.kind = "DictStatement" -> format_dict_statement(f, node, begin_indent)
      [] node.kind = "ListStatement" -> format_list_statement(f, node, begin_indent)
      [] node.kind = "TupleStatement" -> format_tuple_statement(f, node, begin_indent)
      [] node.kind = "SetStatement" -> format_set_statement(f, node, begin_indent)
      [] OTHER -> <<>>

\* format_list_with_comment: one child written, with the comment of its line
\* or with the line end that separates it from the next child
child_written(b, children, index, child_str) ==
    IF IsSome(get_inline_comment(index, children[index].position.end_line, children))
    THEN write(b, child_str \o <<" ">>
                    \o get_inline_comment(index, children[index].position.end_line, children).val
                    \o <<"\n">>)
    ELSE IF index < Len(children) /\ children[index].kind # "Comment"
    THEN writeln(write(b, child_str), <<>>)
    ELSE write(b, child_str)

\* format_list_with_comment: the loop, an inline comment skipped (next_comment)
list_children(f, b, children, index, begin_indent) ==
    IF index > Len(children) THEN b
    ELSE list_children(f,
            child_written(b, children, index, format_node(f, children[index], begin_indent)),
            children,
            IF IsSome(get_inline_comment(index, children[index].position.end_line, children))
            THEN index + 2 ELSE index + 1,
            begin_indent)

\* Formatter::format_list_with_comment
format_list_with_comment(f, children, begin_indent) ==
    list_children(f, IndentBuffer(f.indent, begin_indent), children, 1, begin_indent).buffer

\* Formatter::format
Formatter_format(f, node, begin_indent) == format_node(f, node, begin_indent)

-----------------------------------------------------------------------------
(* The formatter's inputs: Modules laid out on source lines.  A comment    *)
(* starts on the line the node before it ends on (a trailing comment) or   *)
(* on the next line; every other statement starts on the next line.        *)

\* Most statements of a Module
MaxStatements == 2

\* Most children of a variable block
MaxBlockChildren == 2

LineComment == Comment(<<"#", " ", "c">>)
BlockComment == Comment(<<"/", "*", " ", "d", " ", "*", "/">>)
TheImport == Import(<<ImportItem(sA, None), ImportItem(sB, Some(Symbol(sC)))>>)
PlainAttr == AttrDef(sX, Symbol(sA))

\* The line a list of nodes ends on; before is the line the list follows
EndOf(nodes, before) == IF nodes = <<>> THEN before ELSE nodes[Len(nodes)].position.end_line

\* A line comment runs to the end of its line: nothing follows it there
EndsWithLineComment(nodes) ==
    nodes # <<>> /\ nodes[Len(nodes)].kind = "Comment"
        /\ nodes[Len(nodes)].value = LineComment.value

\* The lines a comment may start on after the nodes: the line they end on
\* (a trailing comment) or the next one (before = 0: nothing precedes)
CommentLines(nodes, before) ==
    IF EndsWithLineComment(nodes) \/ EndOf(nodes, before) = 0
    THEN {EndOf(nodes, before) + 1}
    ELSE {EndOf(nodes, before), EndOf(nodes, before) + 1}

CommentsAfter(nodes, before, comments) ==
    {At(comment, l, l) : comment \in comments, l \in CommentLines(nodes, before)}

\* What a variable block may hold next: a line comment or an attribute
BlockChildrenAfter(nodes, open) ==
    CommentsAfter(nodes, open, {LineComment})
        \cup {At(PlainAttr, EndOf(nodes, open) + 1, EndOf(nodes, open) + 1)}

\* The lists of n children of a block opened on line `open`
RECURSIVE BlockChildren(_, _)
BlockChildren(n, open) ==
    IF n = 0 THEN {<<>>}
    ELSE UNION {{Append(nodes, child) : child \in BlockChildrenAfter(nodes, open)} :
                    nodes \in BlockChildren(n - 1, open)}

\* var { ... } [as c]; opened on line `open`, the brace closed on a line of its own
VarBlocksAt(open) ==
    {At(VarDef(children, alias), open, EndOf(children, open) + 1) :
        children \in UNION {BlockChildren(n, open) : n \in 0..MaxBlockChildren},
        alias \in {None, Some(Symbol(sC))}}

\* What a Module may hold next
StatementsAfter(nodes) ==
    CommentsAfter(nodes, 0, {LineComment, BlockComment})
        \cup {At(TheImport, EndOf(nodes, 0) + 1, EndOf(nodes, 0) + 1),
              At(PlainAttr, EndOf(nodes, 0) + 1, EndOf(nodes, 0) + 1)}
        \cup VarBlocksAt(EndOf(nodes, 0) + 1)

RECURSIVE StatementLists(_)
StatementLists(n) ==
    IF n = 0 THEN {<<>>}
    ELSE UNION {{Append(nodes, child) : child \in StatementsAfter(nodes)} :
                    nodes \in StatementLists(n - 1)}

\* The Modules of up to n statements
CommentedModules(n) ==
    {At(Module(children), 1, EndOf(children, 1)) :
        children \in UNION {StatementLists(k) : k \in 0..n}}

\* The items of a collection: none, one, three, four, three long ones, and
\* three with a collection among them
ItemLists ==
    {<<>>, <<Symbol(sA)>>,
     <<Symbol(sA), Symbol(sB), Symbol(sC)>>,
     <<Symbol(sA), Symbol(sB), Symbol(sC), Symbol(sX)>>,
     <<Symbol(<<"a", "l", "p", "h", "a">>), Symbol(<<"b", "e", "t", "a">>), Symbol(<<"g", "a", "m", "m", "a">>)>>,
     <<Symbol(sA), TupleStatement(<<Symbol(sB), Symbol(sC), Symbol(sX), Symbol(sY)>>), Symbol(sC)>>}

\* k: v for every item v
DictItems(items) == [i \in 1..Len(items) |-> DictItem(Symbol(sK), items[i])]

Collections ==
    {ListStatement(items) : items \in ItemLists}
        \cup {TupleStatement(items) : items \in ItemLists}
        \cup {SetStatement(items) : items \in ItemLists}
        \cup {DictStatement(DictItems(items)) : items \in ItemLists}

\* q = <collection>; at the top level (line 1) or in a variable block (line 2)
CollectionModules ==
    {At(Module(<<At(AttrDef(sQ, value), 1, 1)>>), 1, 1) : value \in Collections}
        \cup {At(Module(<<At(VarDef(<<At(AttrDef(sQ, value), 2, 2)>>, None), 1, 3)>>), 1, 3) :
                value \in Collections}

FormatterInputs(n) == CommentedModules(n) \cup CollectionModules

\* Formatter::new(indent, max_col): compact, narrow and the defaults
Formatters ==
    {Formatter(0, DefaultMaxCol), Formatter(DefaultIndent, DefaultMaxCol),
     Formatter(2, 12), Formatter(DefaultIndent, 12)}

\* A caller about to format one Module
FormatInit ==
    /\ ast \in FormatterInputs(MaxStatements)
    /\ pc = "parsed"
    /\ idx = 1
    /\ vars = EmptyMap
    /\ graphs = <<>>
    /\ ops = <<>>
    /\ result = NotReturned
    /\ ir = VNull
    /\ opts \in Formatters
    /\ OPTIONS = DefaultOptions
    /\ out = NotReturned

\* formatter.format(&parsed, 0)
Format ==
    /\ pc = "parsed"
    /\ out' = Formatter_format(opts, ast, 0)
    /\ pc' = "formatted"
    /\ UNCHANGED <<ast, idx, vars, graphs, ops, result, ir, opts, OPTIONS>>

FormatNext == Format

SpecFormat == FormatInit /\ [][FormatNext]_allvars

-----------------------------------------------------------------------------
(* Trailing comments (format.rs, format_list_with_comment and              *)
(* get_inline_comment), on the formatted Modules.                          *)

Formatted == pc = "formatted"

\* A text without the line end it closes with
Chomp(text) ==
    IF text # <<>> /\ text[Len(text)] = "\n" THEN SubSeq(text, 1, Len(text) - 1) ELSE text

LineEnds(text) == {i \in 1..Len(text) : text[i] = "\n"}

\* What follows the last line end of a text
LastLine(text) ==
    IF LineEnds(text) = {} THEN text
    ELSE SubSeq(text, (CHOOSE i \in LineEnds(text) : \A j \in LineEnds(text) : j <= i) + 1,
                Len(text))

\* The output line a statement's own text ends with
OutputLine(text) == LastLine(Chomp(text))

\* A text without its blanks and line ends
IsInk(ch) == ch \notin {" ", "\n"}
Squeeze(text) == SelectSeq(text, IsInk)

\* Child i + 1 is a comment that starts on the line child i ends on
TrailingComment(children, i) ==
    /\ i + 1 <= Len(children)
    /\ children[i + 1].kind = "Comment"
    /\ children[i + 1].position.line = children[i].position.end_line

\* The statement and its trailing comment share an output line of the text:
\* the statement's line, one space, the comment, the line end
OnOneOutputLine(text, children, i, begin_indent) ==
    Contains(text, OutputLine(format_node(opts, children[i], begin_indent))
                       \o <<" ">> \o children[i + 1].value \o <<"\n">>)

\* The text holds every child's own text once, in source order
EachOnceInOrder(text, children, begin_indent) ==
    Squeeze(text)
        = Join([i \in 1..Len(children) |->
                    Squeeze(format_node(opts, children[i], begin_indent))], <<>>)

VarBlocks == {i \in 1..Len(ast.children) : ast.children[i].kind = "VarDef"}

(* C26: in a statement list a Comment that immediately follows statement i *)
(* and starts on the line statement i ends on is appended to statement i's *)
(* output on the same output line, after one space and without            *)
(* indentation, and is not emitted again; every other child of the list is *)
(* emitted exactly once, in source order.  Stated of the Module's list and *)
(* of the list of every variable block of the Module.                      *)
C26_TrailingComments ==
    Formatted =>
        /\ \A i \in 1..Len(ast.children) :
              TrailingComment(ast.children, i) => OnOneOutputLine(out, ast.children, i, 0)
        /\ EachOnceInOrder(out, ast.children, 0)
        /\ \A v \in VarBlocks :
              /\ \A i \in 1..Len(ast.children[v].children) :
                    TrailingComment(ast.children[v].children, i) =>
                        OnOneOutputLine(out, ast.children[v].children, i, opts.indent)
              /\ EachOnceInOrder(format_list_with_comment(opts, ast.children[v].children,
                                                          opts.indent),
                                 ast.children[v].children, opts.indent)

\* The same, of the statements that are not comments themselves: what the
\* formatter does for a comment that trails a definition or a block
C26_AfterStatements ==
    Formatted =>
        /\ \A i \in 1..Len(ast.children) :
              (TrailingComment(ast.children, i) /\ ast.children[i].kind # "Comment") =>
                  OnOneOutputLine(out, ast.children, i, 0)
        /\ EachOnceInOrder(out, ast.children, 0)
        /\ \A v \in VarBlocks :
              /\ \A i \in 1..Len(ast.children[v].children) :
                    (/\ TrailingComment(ast.children[v].children, i)
                     /\ ast.children[v].children[i].kind # "Comment") =>
                        OnOneOutputLine(out, ast.children[v].children, i, opts.indent)
              /\ EachOnceInOrder(format_list_with_comment(opts, ast.children[v].children,
                                                          opts.indent),
                                 ast.children[v].children, opts.indent)

-----------------------------------------------------------------------------
(* The line breaks of collections (format.rs, format_sequence and          *)
(* need_line_for_items), on the Modules that hold q = <collection>;.       *)

IsCollection(node) ==
    node.kind \in {"ListStatement", "TupleStatement", "SetStatement", "DictStatement"}

Opening(node) ==
    CASE node.kind = "ListStatement" -> <<"[">>
      [] node.kind = "TupleStatement" -> <<"(">>
      [] OTHER -> <<"{">>

Closing(node) ==
    CASE node.kind = "ListStatement" -> <<"]">>
      [] node.kind = "TupleStatement" -> <<")">>
      [] OTHER -> <<"}">>

\* A value written on one line: the items comma-space separated between the delimiters
RECURSIVE OnOneLine(_)
OnOneLine(node) ==
    CASE IsCollection(node) ->
            Opening(node) \o Join([i \in 1..Len(node.items) |-> OnOneLine(node.items[i])],
                                  <<",", " ">>) \o Closing(node)
      [] node.kind = "DictItem" -> OnOneLine(node.key) \o <<":", " ">> \o OnOneLine(node.value)
      [] node.kind = "Symbol" -> node.name
      [] OTHER -> node.value

\* The statement q = <collection>; of the Module, and the indentation it is written at
CollectionAttr ==
    IF ast.children[1].kind = "VarDef" THEN ast.children[1].children[1] ELSE ast.children[1]
AttrIndent == IF ast.children[1].kind = "VarDef" THEN opts.indent ELSE 0

FormattedCollection == Formatted /\ ast \in CollectionModules

\* The column the collection starts at: the indentation and `q = `
StartColumn == AttrIndent + Len(CollectionAttr.name.name) + 3

\* The column budget: the one-line rendering from the current column exceeds max_col
OverBudget == StartColumn + Len(OnOneLine(CollectionAttr.value)) > opts.max_col

\* The collection was broken after its opening delimiter
BrokenOntoLines ==
    Contains(out, CollectionAttr.name.name \o <<" ", "=", " ">>
                      \o Opening(CollectionAttr.value) \o <<"\n">>)

(* C27: a list, tuple, set or dict is broken onto one item per line        *)
(* exactly when indent > 0 and its single-line rendering from the current  *)
(* column would exceed max_col, and is kept on one line otherwise,         *)
(* whatever the number of its items.                                       *)
C27_ColumnBudget ==
    FormattedCollection => (BrokenOntoLines <=> (opts.indent > 0 /\ OverBudget))

-----------------------------------------------------------------------------
(* The parser (crate::parser::parse_gos, not among the files of src/):     *)
(* modelled from the source-text surface and the Position contract of the  *)
(* specification, for the texts the formatter writes: comments, imports,   *)
(* attribute definitions over names and collections, and variable blocks.  *)
(* A statement's Position spans the lines of its first and last token, as  *)
(* tests/parser_tests.rs expects; the values inside a statement are given  *)
(* no Position, the formatter reads none of them.                          *)

Blanks == {" ", "\n", "\t", "\r"}
NameChars == LowerLetters \cup UpperLetters \cup Digits \cup {"_", "."}

Parsed(node, next) == [ok |-> TRUE, node |-> node, next |-> next]
NoParse == [ok |-> FALSE]

\* The text holds the word at index i
LooksAt(text, i, word) ==
    i + Len(word) - 1 <= Len(text) /\ SubSeq(text, i, i + Len(word) - 1) = word

\* The 1-based line of index i
LineOf(text, i) == 1 + Cardinality({j \in 1..(i - 1) : j <= Len(text) /\ text[j] = "\n"})

RECURSIVE skip_blanks(_, _)
skip_blanks(text, i) ==
    IF i <= Len(text) /\ text[i] \in Blanks THEN skip_blanks(text, i + 1) ELSE i

\* The index after the name that starts at i
RECURSIVE name_end(_, _)
name_end(text, i) ==
    IF i <= Len(text) /\ text[i] \in NameChars THEN name_end(text, i + 1) ELSE i

\* The index of the line end at or after i
RECURSIVE line_end(_, _)
line_end(text, i) ==
    IF i <= Len(text) /\ text[i] # "\n" THEN line_end(text, i + 1) ELSE i

\* The index after the first */ at or after i (past the text if there is none)
RECURSIVE comment_end(_, _)
comment_end(text, i) ==
    IF i > Len(text) THEN Len(text) + 2
    ELSE IF LooksAt(text, i, <<"*", "/">>) THEN i + 2
    ELSE comment_end(text, i + 1)

NameAt(text, i) == SubSeq(text, i, name_end(text, i) - 1)

\* The keyword, not a longer name that starts with it
IsWord(text, i, word) == LooksAt(text, i, word) /\ name_end(text, i) = i + Len(word)

RECURSIVE parse_value(_, _)
RECURSIVE parse_items(_, _, _, _)
RECURSIVE item_parsed(_, _, _, _)
RECURSIVE item_keyed(_, _, _, _, _)
RECURSIVE pair_parsed(_, _, _, _, _)
RECURSIVE item_done(_, _, _, _, _)

\* `{...}` holds key: value pairs (a dict) or values (a set); `{}` is read as a dict
brace_kind(items) ==
    IF items = <<>> \/ items[1].kind = "DictItem" THEN "DictStatement" ELSE "SetStatement"

collection_of(r, kind) ==
    IF r.ok THEN Parsed([kind |-> kind, items |-> r.node], r.next) ELSE r

braces_of(r) ==
    IF r.ok THEN Parsed([kind |-> brace_kind(r.node), items |-> r.node], r.next) ELSE r

\* A value: a name or a list, tuple, set or dict of values
parse_value(text, i) ==
    IF i > Len(text) THEN NoParse
    ELSE CASE text[i] = "[" ->
                collection_of(parse_items(text, skip_blanks(text, i + 1), "]", <<>>), "ListStatement")
           [] text[i] = "(" ->
                collection_of(parse_items(text, skip_blanks(text, i + 1), ")", <<>>), "TupleStatement")
           [] text[i] = "{" -> braces_of(parse_items(text, skip_blanks(text, i + 1), "}", <<>>))
           [] text[i] \in NameChars -> Parsed(Symbol(NameAt(text, i)), name_end(text, i))
           [] OTHER -> NoParse

\* The items of a collection up to its closing delimiter
parse_items(text, i, close, acc) ==
    IF i > Len(text) THEN NoParse
    ELSE IF text[i] = close THEN Parsed(acc, i + 1)
    ELSE item_parsed(text, parse_value(text, i), close, acc)

item_parsed(text, v, close, acc) ==
    IF ~v.ok THEN v ELSE item_keyed(text, v, skip_blanks(text, v.next), close, acc)

item_keyed(text, v, j, close, acc) ==
    IF j <= Len(text) /\ text[j] = ":"
    THEN pair_parsed(text, v, parse_value(text, skip_blanks(text, j + 1)), close, acc)
    ELSE item_done(text, v.node, j, close, acc)

pair_parsed(text, k, v, close, acc) ==
    IF ~v.ok THEN v
    ELSE item_done(text, DictItem(k.node, v.node), skip_blanks(text, v.next), close, acc)

item_done(text, item, j, close, acc) ==
    IF j > Len(text) THEN NoParse
    ELSE IF text[j] = "," THEN parse_items(text, skip_blanks(text, j + 1), close, Append(acc, item))
    ELSE IF text[j] = close THEN Parsed(Append(acc, item), j + 1)
    ELSE NoParse

\* # ... and // ... to the end of the line, /* ... */ to its end
parse_comment(text, i) ==
    IF LooksAt(text, i, <<"/", "*">>)
    THEN IF comment_end(text, i + 2) > Len(text) + 1 THEN NoParse
         ELSE Parsed(At(Comment(SubSeq(text, i, comment_end(text, i + 2) - 1)),
                        LineOf(text, i), LineOf(text, comment_end(text, i + 2) - 1)),
                     comment_end(text, i + 2))
    ELSE Parsed(At(Comment(SubSeq(text, i, line_end(text, i) - 1)),
                   LineOf(text, i), LineOf(text, i)),
                line_end(text, i))

RECURSIVE parse_import_items(_, _, _, _)
RECURSIVE import_item_done(_, _, _, _, _)

\* import: one item read, j at the `,` or the `;` after it
import_item_done(text, item, j, acc, start) ==
    IF j > Len(text) THEN NoParse
    ELSE IF text[j] = ","
    THEN parse_import_items(text, skip_blanks(text, j + 1), Append(acc, item), start)
    ELSE IF text[j] = ";"
    THEN Parsed(At(Import(Append(acc, item)), LineOf(text, start), LineOf(text, j)), j + 1)
    ELSE NoParse

\* import: the alias name at k
import_alias(text, path, k, acc, start) ==
    import_item_done(text, ImportItem(path, Some(Symbol(NameAt(text, k)))),
                     skip_blanks(text, name_end(text, k)), acc, start)

\* import: a path read, j at what follows it
import_path_read(text, path, j, acc, start) ==
    IF IsWord(text, j, <<"a", "s">>)
    THEN import_alias(text, path, skip_blanks(text, j + 2), acc, start)
    ELSE import_item_done(text, ImportItem(path, None), j, acc, start)

\* import a, b as c;
parse_import_items(text, i, acc, start) ==
    IF i > Len(text) \/ text[i] \notin NameChars THEN NoParse
    ELSE import_path_read(text, NameAt(text, i), skip_blanks(text, name_end(text, i)), acc, start)

\* name = value; -- the value read, j at the `;`
attr_value_read(text, name, v, start) ==
    IF ~v.ok THEN v
    ELSE IF skip_blanks(text, v.next) <= Len(text) /\ text[skip_blanks(text, v.next)] = ";"
    THEN Parsed(At(AttrDef(name, v.node), LineOf(text, start),
                   LineOf(text, skip_blanks(text, v.next))),
                skip_blanks(text, v.next) + 1)
    ELSE NoParse

\* name = value; -- j at the `=`
attr_named(text, name, j, start) ==
    IF j <= Len(text) /\ text[j] = "="
    THEN attr_value_read(text, name, parse_value(text, skip_blanks(text, j + 1)), start)
    ELSE NoParse

parse_attr(text, i) == attr_named(text, NameAt(text, i), skip_blanks(text, name_end(text, i)), i)

RECURSIVE parse_statement(_, _)
RECURSIVE parse_children(_, _, _, _)
RECURSIVE children_more(_, _, _, _)

\* var {...} [as name]; -- j at the `;`
var_closed(text, children, alias, j, start) ==
    IF j <= Len(text) /\ text[j] = ";"
    THEN Parsed(At(VarDef(children, alias), LineOf(text, start), LineOf(text, j)), j + 1)
    ELSE NoParse

\* var {...} -- the children read, j at what follows the `}`
var_children_read(text, r, j, start) ==
    IF IsWord(text, j, <<"a", "s">>)
    THEN var_closed(text, r.node, Some(Symbol(NameAt(text, skip_blanks(text, j + 2)))),
                    skip_blanks(text, name_end(text, skip_blanks(text, j + 2))), start)
    ELSE var_closed(text, r.node, None, j, start)

var_body(text, r, start) ==
    IF ~r.ok THEN r ELSE var_children_read(text, r, skip_blanks(text, r.next), start)

\* var { children } [as name];
parse_var(text, i) ==
    var_body(text, parse_children(text, skip_blanks(text, skip_blanks(text, i + 3) + 1), TRUE, <<>>), i)

IsVarBlock(text, i) ==
    /\ IsWord(text, i, <<"v", "a", "r">>)
    /\ skip_blanks(text, i + 3) <= Len(text)
    /\ text[skip_blanks(text, i + 3)] = "{"

\* One statement, i at its first character
parse_statement(text, i) ==
    CASE text[i] = "#" \/ LooksAt(text, i, <<"/", "/">>) \/ LooksAt(text, i, <<"/", "*">>) ->
            parse_comment(text, i)
      [] IsWord(text, i, <<"i", "m", "p", "o", "r", "t">>) -> parse_import_items(text, skip_blanks(text, i + 6), <<>>, i)
      [] IsVarBlock(text, i) -> parse_var(text, i)
      [] text[i] \in NameChars -> parse_attr(text, i)
      [] OTHER -> NoParse

\* The statements up to the end of the text, or of a block up to its `}`
parse_children(text, i, in_block, acc) ==
    IF i > Len(text) THEN (IF in_block THEN NoParse ELSE Parsed(acc, i))
    ELSE IF in_block /\ text[i] = "}" THEN Parsed(acc, i + 1)
    ELSE children_more(text, parse_statement(text, i), in_block, acc)

children_more(text, r, in_block, acc) ==
    IF ~r.ok THEN r
    ELSE parse_children(text, skip_blanks(text, r.next), in_block, Append(acc, r.node))

ParseError == "Parse error"

module_parsed(text, r) ==
    IF r.ok THEN Ok(At(Module(r.node), 1, LineOf(text, Len(text) + 1))) ELSE Err(ParseError)

\* parse_gos(content, options)
parse_gos(text) == module_parsed(text, parse_children(text, skip_blanks(text, 1), FALSE, <<>>))

\* format_from_data: after `parse_gos(content, options)?`
format_parsed(parsed, indent_size, max_col) ==
    IF parsed.ok THEN Ok(Formatter_format(Formatter(indent_size, max_col), parsed.val, 0))
    ELSE parsed

\* format_from_data(content, indent, max_col)
format_from_data(content, indent_size, max_col) ==
    format_parsed(parse_gos(content), indent_size, max_col)

\* formatter.format(&x, 0), then format_from_data on the text it gave
Reformat ==
    /\ pc = "formatted"
    /\ result' = format_from_data(out, opts.indent, opts.max_col)
    /\ pc' = "reformatted"
    /\ UNCHANGED <<ast, idx, vars, graphs, ops, ir, opts, OPTIONS, out>>

ReformatNext == Format \/ Reformat

SpecReformat == FormatInit /\ [][ReformatNext]_allvars

(* C25: formatting is idempotent: for any AST x that formats without       *)
(* error, parsing the formatted text and formatting it again yields the    *)
(* same text, format(format(x)) = format(x).                               *)
C25_Idempotent ==
    pc = "reformatted" => result = Ok(out)

\* The formatted text parses again
C25_Reparses ==
    pc = "reformatted" => result.ok

====
